---- MODULE Spec2Model ----
(***************************************************************************)
(* Scroggle clue generator: a trie built from a word list, and a           *)
(* backtracking depth-first search of a 7x7 hex-adjacent letter board      *)
(* that records every dictionary word of at least MIN_LEN letters and a    *)
(* histogram of the words' two-character prefixes.                         *)
(* Strings are sequences of code points.                                   *)
(***************************************************************************)
EXTENDS Integers, Sequences, FiniteSets, TLC

VARIABLES
    pc,         \* position of main: "load", "parse", "search", "done", "error"
    wordLines,  \* the word file: a sequence of raw lines
    li,         \* number of lines load_trie has consumed
    letterList, \* the puzzle: the letter list string of the API response
    nodes,      \* the trie's Node objects: nodes[1] is the root
    added,      \* history: the words Trie.add was called with
    nadds,      \* history: the number of Trie.add calls
    grid,       \* the parsed board, a function of <<r, c>>
    origin,     \* number of origin searches main has started
    stack,      \* the active explore calls, outermost first
    entry,      \* history: visited and buf as each active call was entered
    buf,        \* the path buffer
    seen,       \* the Result Set
    counts,     \* the Prefix Histogram, in insertion order
    hits,       \* history: how often a terminal node closed a long enough word
    visited,    \* the visited matrix, a function of <<r, c>>
    total,      \* the printed total
    clue        \* the printed clue line

vars == <<pc, wordLines, li, letterList, nodes, added, nadds, grid, origin,
          stack, entry, buf, seen, counts, hits, visited, total, clue>>

-----------------------------------------------------------------------------
(* Program constants *)

MIN_LEN == 4
N == 7

(* Bounds of the model *)

MaxWords == 2       \* lines in a word file
NumBoards == 6      \* puzzles tried, taken from the front of LetterLists
MaxAdds == 3        \* Trie.add calls in TrieSpec
MaxAddLen == 3      \* length of the words TrieSpec adds

-----------------------------------------------------------------------------
(* String literals *)

\* the printable ASCII characters from U+0020 on; the grave accent is named
Printable == <<" ","!","\"","#","$","%","&","'","(",")","*","+",",","-",".","/",
               "0","1","2","3","4","5","6","7","8","9",":",";","<","=",">","?",
               "@","A","B","C","D","E","F","G","H","I","J","K","L","M","N","O",
               "P","Q","R","S","T","U","V","W","X","Y","Z","[","\\","]","^","_",
               "U+0060","a","b","c","d","e","f","g","h","i","j","k","l","m","n","o",
               "p","q","r","s","t","u","v","w","x","y","z","{","|","}","~">>
\* ord of a printable ASCII character
Code(ch) == \h001F + (CHOOSE i \in 1..Len(Printable) : Printable[i] = ch)
\* the string of a sequence of printable ASCII characters
Str(t) == [i \in 1..Len(t) |-> Code(t[i])]

Space == \h0020
Comma == \h002C
NewLine == \h000A
DigitZero == \h0030

-----------------------------------------------------------------------------
(* Characters *)

\* A character is its code point, a string a sequence of code points.  The
\* tables are those of the Unicode Character Database 14.0.0 that the
\* interpreter's str methods consult, over all code points U+0000 to U+10FFFF.

\* str.isalpha: the ranges <<first, last>> of the letters (Lu, Ll, Lt, Lm, Lo)
AlphaRanges == <<
    <<\h0041, \h005A>>, <<\h0061, \h007A>>, <<\h00AA, \h00AA>>, <<\h00B5, \h00B5>>, <<\h00BA, \h00BA>>,
    <<\h00C0, \h00D6>>, <<\h00D8, \h00F6>>, <<\h00F8, \h02C1>>, <<\h02C6, \h02D1>>, <<\h02E0, \h02E4>>,
    <<\h02EC, \h02EC>>, <<\h02EE, \h02EE>>, <<\h0370, \h0374>>, <<\h0376, \h0377>>, <<\h037A, \h037D>>,
    <<\h037F, \h037F>>, <<\h0386, \h0386>>, <<\h0388, \h038A>>, <<\h038C, \h038C>>, <<\h038E, \h03A1>>,
    <<\h03A3, \h03F5>>, <<\h03F7, \h0481>>, <<\h048A, \h052F>>, <<\h0531, \h0556>>, <<\h0559, \h0559>>,
    <<\h0560, \h0588>>, <<\h05D0, \h05EA>>, <<\h05EF, \h05F2>>, <<\h0620, \h064A>>, <<\h066E, \h066F>>,
    <<\h0671, \h06D3>>, <<\h06D5, \h06D5>>, <<\h06E5, \h06E6>>, <<\h06EE, \h06EF>>, <<\h06FA, \h06FC>>,
    <<\h06FF, \h06FF>>, <<\h0710, \h0710>>, <<\h0712, \h072F>>, <<\h074D, \h07A5>>, <<\h07B1, \h07B1>>,
    <<\h07CA, \h07EA>>, <<\h07F4, \h07F5>>, <<\h07FA, \h07FA>>, <<\h0800, \h0815>>, <<\h081A, \h081A>>,
    <<\h0824, \h0824>>, <<\h0828, \h0828>>, <<\h0840, \h0858>>, <<\h0860, \h086A>>, <<\h0870, \h0887>>,
    <<\h0889, \h088E>>, <<\h08A0, \h08C9>>, <<\h0904, \h0939>>, <<\h093D, \h093D>>, <<\h0950, \h0950>>,
    <<\h0958, \h0961>>, <<\h0971, \h0980>>, <<\h0985, \h098C>>, <<\h098F, \h0990>>, <<\h0993, \h09A8>>,
    <<\h09AA, \h09B0>>, <<\h09B2, \h09B2>>, <<\h09B6, \h09B9>>, <<\h09BD, \h09BD>>, <<\h09CE, \h09CE>>,
    <<\h09DC, \h09DD>>, <<\h09DF, \h09E1>>, <<\h09F0, \h09F1>>, <<\h09FC, \h09FC>>, <<\h0A05, \h0A0A>>,
    <<\h0A0F, \h0A10>>, <<\h0A13, \h0A28>>, <<\h0A2A, \h0A30>>, <<\h0A32, \h0A33>>, <<\h0A35, \h0A36>>,
    <<\h0A38, \h0A39>>, <<\h0A59, \h0A5C>>, <<\h0A5E, \h0A5E>>, <<\h0A72, \h0A74>>, <<\h0A85, \h0A8D>>,
    <<\h0A8F, \h0A91>>, <<\h0A93, \h0AA8>>, <<\h0AAA, \h0AB0>>, <<\h0AB2, \h0AB3>>, <<\h0AB5, \h0AB9>>,
    <<\h0ABD, \h0ABD>>, <<\h0AD0, \h0AD0>>, <<\h0AE0, \h0AE1>>, <<\h0AF9, \h0AF9>>, <<\h0B05, \h0B0C>>,
    <<\h0B0F, \h0B10>>, <<\h0B13, \h0B28>>, <<\h0B2A, \h0B30>>, <<\h0B32, \h0B33>>, <<\h0B35, \h0B39>>,
    <<\h0B3D, \h0B3D>>, <<\h0B5C, \h0B5D>>, <<\h0B5F, \h0B61>>, <<\h0B71, \h0B71>>, <<\h0B83, \h0B83>>,
    <<\h0B85, \h0B8A>>, <<\h0B8E, \h0B90>>, <<\h0B92, \h0B95>>, <<\h0B99, \h0B9A>>, <<\h0B9C, \h0B9C>>,
    <<\h0B9E, \h0B9F>>, <<\h0BA3, \h0BA4>>, <<\h0BA8, \h0BAA>>, <<\h0BAE, \h0BB9>>, <<\h0BD0, \h0BD0>>,
    <<\h0C05, \h0C0C>>, <<\h0C0E, \h0C10>>, <<\h0C12, \h0C28>>, <<\h0C2A, \h0C39>>, <<\h0C3D, \h0C3D>>,
    <<\h0C58, \h0C5A>>, <<\h0C5D, \h0C5D>>, <<\h0C60, \h0C61>>, <<\h0C80, \h0C80>>, <<\h0C85, \h0C8C>>,
    <<\h0C8E, \h0C90>>, <<\h0C92, \h0CA8>>, <<\h0CAA, \h0CB3>>, <<\h0CB5, \h0CB9>>, <<\h0CBD, \h0CBD>>,
    <<\h0CDD, \h0CDE>>, <<\h0CE0, \h0CE1>>, <<\h0CF1, \h0CF2>>, <<\h0D04, \h0D0C>>, <<\h0D0E, \h0D10>>,
    <<\h0D12, \h0D3A>>, <<\h0D3D, \h0D3D>>, <<\h0D4E, \h0D4E>>, <<\h0D54, \h0D56>>, <<\h0D5F, \h0D61>>,
    <<\h0D7A, \h0D7F>>, <<\h0D85, \h0D96>>, <<\h0D9A, \h0DB1>>, <<\h0DB3, \h0DBB>>, <<\h0DBD, \h0DBD>>,
    <<\h0DC0, \h0DC6>>, <<\h0E01, \h0E30>>, <<\h0E32, \h0E33>>, <<\h0E40, \h0E46>>, <<\h0E81, \h0E82>>,
    <<\h0E84, \h0E84>>, <<\h0E86, \h0E8A>>, <<\h0E8C, \h0EA3>>, <<\h0EA5, \h0EA5>>, <<\h0EA7, \h0EB0>>,
    <<\h0EB2, \h0EB3>>, <<\h0EBD, \h0EBD>>, <<\h0EC0, \h0EC4>>, <<\h0EC6, \h0EC6>>, <<\h0EDC, \h0EDF>>,
    <<\h0F00, \h0F00>>, <<\h0F40, \h0F47>>, <<\h0F49, \h0F6C>>, <<\h0F88, \h0F8C>>, <<\h1000, \h102A>>,
    <<\h103F, \h103F>>, <<\h1050, \h1055>>, <<\h105A, \h105D>>, <<\h1061, \h1061>>, <<\h1065, \h1066>>,
    <<\h106E, \h1070>>, <<\h1075, \h1081>>, <<\h108E, \h108E>>, <<\h10A0, \h10C5>>, <<\h10C7, \h10C7>>,
    <<\h10CD, \h10CD>>, <<\h10D0, \h10FA>>, <<\h10FC, \h1248>>, <<\h124A, \h124D>>, <<\h1250, \h1256>>,
    <<\h1258, \h1258>>, <<\h125A, \h125D>>, <<\h1260, \h1288>>, <<\h128A, \h128D>>, <<\h1290, \h12B0>>,
    <<\h12B2, \h12B5>>, <<\h12B8, \h12BE>>, <<\h12C0, \h12C0>>, <<\h12C2, \h12C5>>, <<\h12C8, \h12D6>>,
    <<\h12D8, \h1310>>, <<\h1312, \h1315>>, <<\h1318, \h135A>>, <<\h1380, \h138F>>, <<\h13A0, \h13F5>>,
    <<\h13F8, \h13FD>>, <<\h1401, \h166C>>, <<\h166F, \h167F>>, <<\h1681, \h169A>>, <<\h16A0, \h16EA>>,
    <<\h16F1, \h16F8>>, <<\h1700, \h1711>>, <<\h171F, \h1731>>, <<\h1740, \h1751>>, <<\h1760, \h176C>>,
    <<\h176E, \h1770>>, <<\h1780, \h17B3>>, <<\h17D7, \h17D7>>, <<\h17DC, \h17DC>>, <<\h1820, \h1878>>,
    <<\h1880, \h1884>>, <<\h1887, \h18A8>>, <<\h18AA, \h18AA>>, <<\h18B0, \h18F5>>, <<\h1900, \h191E>>,
    <<\h1950, \h196D>>, <<\h1970, \h1974>>, <<\h1980, \h19AB>>, <<\h19B0, \h19C9>>, <<\h1A00, \h1A16>>,
    <<\h1A20, \h1A54>>, <<\h1AA7, \h1AA7>>, <<\h1B05, \h1B33>>, <<\h1B45, \h1B4C>>, <<\h1B83, \h1BA0>>,
    <<\h1BAE, \h1BAF>>, <<\h1BBA, \h1BE5>>, <<\h1C00, \h1C23>>, <<\h1C4D, \h1C4F>>, <<\h1C5A, \h1C7D>>,
    <<\h1C80, \h1C88>>, <<\h1C90, \h1CBA>>, <<\h1CBD, \h1CBF>>, <<\h1CE9, \h1CEC>>, <<\h1CEE, \h1CF3>>,
    <<\h1CF5, \h1CF6>>, <<\h1CFA, \h1CFA>>, <<\h1D00, \h1DBF>>, <<\h1E00, \h1F15>>, <<\h1F18, \h1F1D>>,
    <<\h1F20, \h1F45>>, <<\h1F48, \h1F4D>>, <<\h1F50, \h1F57>>, <<\h1F59, \h1F59>>, <<\h1F5B, \h1F5B>>,
    <<\h1F5D, \h1F5D>>, <<\h1F5F, \h1F7D>>, <<\h1F80, \h1FB4>>, <<\h1FB6, \h1FBC>>, <<\h1FBE, \h1FBE>>,
    <<\h1FC2, \h1FC4>>, <<\h1FC6, \h1FCC>>, <<\h1FD0, \h1FD3>>, <<\h1FD6, \h1FDB>>, <<\h1FE0, \h1FEC>>,
    <<\h1FF2, \h1FF4>>, <<\h1FF6, \h1FFC>>, <<\h2071, \h2071>>, <<\h207F, \h207F>>, <<\h2090, \h209C>>,
    <<\h2102, \h2102>>, <<\h2107, \h2107>>, <<\h210A, \h2113>>, <<\h2115, \h2115>>, <<\h2119, \h211D>>,
    <<\h2124, \h2124>>, <<\h2126, \h2126>>, <<\h2128, \h2128>>, <<\h212A, \h212D>>, <<\h212F, \h2139>>,
    <<\h213C, \h213F>>, <<\h2145, \h2149>>, <<\h214E, \h214E>>, <<\h2183, \h2184>>, <<\h2C00, \h2CE4>>,
    <<\h2CEB, \h2CEE>>, <<\h2CF2, \h2CF3>>, <<\h2D00, \h2D25>>, <<\h2D27, \h2D27>>, <<\h2D2D, \h2D2D>>,
    <<\h2D30, \h2D67>>, <<\h2D6F, \h2D6F>>, <<\h2D80, \h2D96>>, <<\h2DA0, \h2DA6>>, <<\h2DA8, \h2DAE>>,
    <<\h2DB0, \h2DB6>>, <<\h2DB8, \h2DBE>>, <<\h2DC0, \h2DC6>>, <<\h2DC8, \h2DCE>>, <<\h2DD0, \h2DD6>>,
    <<\h2DD8, \h2DDE>>, <<\h2E2F, \h2E2F>>, <<\h3005, \h3006>>, <<\h3031, \h3035>>, <<\h303B, \h303C>>,
    <<\h3041, \h3096>>, <<\h309D, \h309F>>, <<\h30A1, \h30FA>>, <<\h30FC, \h30FF>>, <<\h3105, \h312F>>,
    <<\h3131, \h318E>>, <<\h31A0, \h31BF>>, <<\h31F0, \h31FF>>, <<\h3400, \h4DBF>>, <<\h4E00, \hA48C>>,
    <<\hA4D0, \hA4FD>>, <<\hA500, \hA60C>>, <<\hA610, \hA61F>>, <<\hA62A, \hA62B>>, <<\hA640, \hA66E>>,
    <<\hA67F, \hA69D>>, <<\hA6A0, \hA6E5>>, <<\hA717, \hA71F>>, <<\hA722, \hA788>>, <<\hA78B, \hA7CA>>,
    <<\hA7D0, \hA7D1>>, <<\hA7D3, \hA7D3>>, <<\hA7D5, \hA7D9>>, <<\hA7F2, \hA801>>, <<\hA803, \hA805>>,
    <<\hA807, \hA80A>>, <<\hA80C, \hA822>>, <<\hA840, \hA873>>, <<\hA882, \hA8B3>>, <<\hA8F2, \hA8F7>>,
    <<\hA8FB, \hA8FB>>, <<\hA8FD, \hA8FE>>, <<\hA90A, \hA925>>, <<\hA930, \hA946>>, <<\hA960, \hA97C>>,
    <<\hA984, \hA9B2>>, <<\hA9CF, \hA9CF>>, <<\hA9E0, \hA9E4>>, <<\hA9E6, \hA9EF>>, <<\hA9FA, \hA9FE>>,
    <<\hAA00, \hAA28>>, <<\hAA40, \hAA42>>, <<\hAA44, \hAA4B>>, <<\hAA60, \hAA76>>, <<\hAA7A, \hAA7A>>,
    <<\hAA7E, \hAAAF>>, <<\hAAB1, \hAAB1>>, <<\hAAB5, \hAAB6>>, <<\hAAB9, \hAABD>>, <<\hAAC0, \hAAC0>>,
    <<\hAAC2, \hAAC2>>, <<\hAADB, \hAADD>>, <<\hAAE0, \hAAEA>>, <<\hAAF2, \hAAF4>>, <<\hAB01, \hAB06>>,
    <<\hAB09, \hAB0E>>, <<\hAB11, \hAB16>>, <<\hAB20, \hAB26>>, <<\hAB28, \hAB2E>>, <<\hAB30, \hAB5A>>,
    <<\hAB5C, \hAB69>>, <<\hAB70, \hABE2>>, <<\hAC00, \hD7A3>>, <<\hD7B0, \hD7C6>>, <<\hD7CB, \hD7FB>>,
    <<\hF900, \hFA6D>>, <<\hFA70, \hFAD9>>, <<\hFB00, \hFB06>>, <<\hFB13, \hFB17>>, <<\hFB1D, \hFB1D>>,
    <<\hFB1F, \hFB28>>, <<\hFB2A, \hFB36>>, <<\hFB38, \hFB3C>>, <<\hFB3E, \hFB3E>>, <<\hFB40, \hFB41>>,
    <<\hFB43, \hFB44>>, <<\hFB46, \hFBB1>>, <<\hFBD3, \hFD3D>>, <<\hFD50, \hFD8F>>, <<\hFD92, \hFDC7>>,
    <<\hFDF0, \hFDFB>>, <<\hFE70, \hFE74>>, <<\hFE76, \hFEFC>>, <<\hFF21, \hFF3A>>, <<\hFF41, \hFF5A>>,
    <<\hFF66, \hFFBE>>, <<\hFFC2, \hFFC7>>, <<\hFFCA, \hFFCF>>, <<\hFFD2, \hFFD7>>, <<\hFFDA, \hFFDC>>,
    <<\h10000, \h1000B>>, <<\h1000D, \h10026>>, <<\h10028, \h1003A>>, <<\h1003C, \h1003D>>, <<\h1003F, \h1004D>>,
    <<\h10050, \h1005D>>, <<\h10080, \h100FA>>, <<\h10280, \h1029C>>, <<\h102A0, \h102D0>>, <<\h10300, \h1031F>>,
    <<\h1032D, \h10340>>, <<\h10342, \h10349>>, <<\h10350, \h10375>>, <<\h10380, \h1039D>>, <<\h103A0, \h103C3>>,
    <<\h103C8, \h103CF>>, <<\h10400, \h1049D>>, <<\h104B0, \h104D3>>, <<\h104D8, \h104FB>>, <<\h10500, \h10527>>,
    <<\h10530, \h10563>>, <<\h10570, \h1057A>>, <<\h1057C, \h1058A>>, <<\h1058C, \h10592>>, <<\h10594, \h10595>>,
    <<\h10597, \h105A1>>, <<\h105A3, \h105B1>>, <<\h105B3, \h105B9>>, <<\h105BB, \h105BC>>, <<\h10600, \h10736>>,
    <<\h10740, \h10755>>, <<\h10760, \h10767>>, <<\h10780, \h10785>>, <<\h10787, \h107B0>>, <<\h107B2, \h107BA>>,
    <<\h10800, \h10805>>, <<\h10808, \h10808>>, <<\h1080A, \h10835>>, <<\h10837, \h10838>>, <<\h1083C, \h1083C>>,
    <<\h1083F, \h10855>>, <<\h10860, \h10876>>, <<\h10880, \h1089E>>, <<\h108E0, \h108F2>>, <<\h108F4, \h108F5>>,
    <<\h10900, \h10915>>, <<\h10920, \h10939>>, <<\h10980, \h109B7>>, <<\h109BE, \h109BF>>, <<\h10A00, \h10A00>>,
    <<\h10A10, \h10A13>>, <<\h10A15, \h10A17>>, <<\h10A19, \h10A35>>, <<\h10A60, \h10A7C>>, <<\h10A80, \h10A9C>>,
    <<\h10AC0, \h10AC7>>, <<\h10AC9, \h10AE4>>, <<\h10B00, \h10B35>>, <<\h10B40, \h10B55>>, <<\h10B60, \h10B72>>,
    <<\h10B80, \h10B91>>, <<\h10C00, \h10C48>>, <<\h10C80, \h10CB2>>, <<\h10CC0, \h10CF2>>, <<\h10D00, \h10D23>>,
    <<\h10E80, \h10EA9>>, <<\h10EB0, \h10EB1>>, <<\h10F00, \h10F1C>>, <<\h10F27, \h10F27>>, <<\h10F30, \h10F45>>,
    <<\h10F70, \h10F81>>, <<\h10FB0, \h10FC4>>, <<\h10FE0, \h10FF6>>, <<\h11003, \h11037>>, <<\h11071, \h11072>>,
    <<\h11075, \h11075>>, <<\h11083, \h110AF>>, <<\h110D0, \h110E8>>, <<\h11103, \h11126>>, <<\h11144, \h11144>>,
    <<\h11147, \h11147>>, <<\h11150, \h11172>>, <<\h11176, \h11176>>, <<\h11183, \h111B2>>, <<\h111C1, \h111C4>>,
    <<\h111DA, \h111DA>>, <<\h111DC, \h111DC>>, <<\h11200, \h11211>>, <<\h11213, \h1122B>>, <<\h11280, \h11286>>,
    <<\h11288, \h11288>>, <<\h1128A, \h1128D>>, <<\h1128F, \h1129D>>, <<\h1129F, \h112A8>>, <<\h112B0, \h112DE>>,
    <<\h11305, \h1130C>>, <<\h1130F, \h11310>>, <<\h11313, \h11328>>, <<\h1132A, \h11330>>, <<\h11332, \h11333>>,
    <<\h11335, \h11339>>, <<\h1133D, \h1133D>>, <<\h11350, \h11350>>, <<\h1135D, \h11361>>, <<\h11400, \h11434>>,
    <<\h11447, \h1144A>>, <<\h1145F, \h11461>>, <<\h11480, \h114AF>>, <<\h114C4, \h114C5>>, <<\h114C7, \h114C7>>,
    <<\h11580, \h115AE>>, <<\h115D8, \h115DB>>, <<\h11600, \h1162F>>, <<\h11644, \h11644>>, <<\h11680, \h116AA>>,
    <<\h116B8, \h116B8>>, <<\h11700, \h1171A>>, <<\h11740, \h11746>>, <<\h11800, \h1182B>>, <<\h118A0, \h118DF>>,
    <<\h118FF, \h11906>>, <<\h11909, \h11909>>, <<\h1190C, \h11913>>, <<\h11915, \h11916>>, <<\h11918, \h1192F>>,
    <<\h1193F, \h1193F>>, <<\h11941, \h11941>>, <<\h119A0, \h119A7>>, <<\h119AA, \h119D0>>, <<\h119E1, \h119E1>>,
    <<\h119E3, \h119E3>>, <<\h11A00, \h11A00>>, <<\h11A0B, \h11A32>>, <<\h11A3A, \h11A3A>>, <<\h11A50, \h11A50>>,
    <<\h11A5C, \h11A89>>, <<\h11A9D, \h11A9D>>, <<\h11AB0, \h11AF8>>, <<\h11C00, \h11C08>>, <<\h11C0A, \h11C2E>>,
    <<\h11C40, \h11C40>>, <<\h11C72, \h11C8F>>, <<\h11D00, \h11D06>>, <<\h11D08, \h11D09>>, <<\h11D0B, \h11D30>>,
    <<\h11D46, \h11D46>>, <<\h11D60, \h11D65>>, <<\h11D67, \h11D68>>, <<\h11D6A, \h11D89>>, <<\h11D98, \h11D98>>,
    <<\h11EE0, \h11EF2>>, <<\h11FB0, \h11FB0>>, <<\h12000, \h12399>>, <<\h12480, \h12543>>, <<\h12F90, \h12FF0>>,
    <<\h13000, \h1342E>>, <<\h14400, \h14646>>, <<\h16800, \h16A38>>, <<\h16A40, \h16A5E>>, <<\h16A70, \h16ABE>>,
    <<\h16AD0, \h16AED>>, <<\h16B00, \h16B2F>>, <<\h16B40, \h16B43>>, <<\h16B63, \h16B77>>, <<\h16B7D, \h16B8F>>,
    <<\h16E40, \h16E7F>>, <<\h16F00, \h16F4A>>, <<\h16F50, \h16F50>>, <<\h16F93, \h16F9F>>, <<\h16FE0, \h16FE1>>,
    <<\h16FE3, \h16FE3>>, <<\h17000, \h187F7>>, <<\h18800, \h18CD5>>, <<\h18D00, \h18D08>>, <<\h1AFF0, \h1AFF3>>,
    <<\h1AFF5, \h1AFFB>>, <<\h1AFFD, \h1AFFE>>, <<\h1B000, \h1B122>>, <<\h1B150, \h1B152>>, <<\h1B164, \h1B167>>,
    <<\h1B170, \h1B2FB>>, <<\h1BC00, \h1BC6A>>, <<\h1BC70, \h1BC7C>>, <<\h1BC80, \h1BC88>>, <<\h1BC90, \h1BC99>>,
    <<\h1D400, \h1D454>>, <<\h1D456, \h1D49C>>, <<\h1D49E, \h1D49F>>, <<\h1D4A2, \h1D4A2>>, <<\h1D4A5, \h1D4A6>>,
    <<\h1D4A9, \h1D4AC>>, <<\h1D4AE, \h1D4B9>>, <<\h1D4BB, \h1D4BB>>, <<\h1D4BD, \h1D4C3>>, <<\h1D4C5, \h1D505>>,
    <<\h1D507, \h1D50A>>, <<\h1D50D, \h1D514>>, <<\h1D516, \h1D51C>>, <<\h1D51E, \h1D539>>, <<\h1D53B, \h1D53E>>,
    <<\h1D540, \h1D544>>, <<\h1D546, \h1D546>>, <<\h1D54A, \h1D550>>, <<\h1D552, \h1D6A5>>, <<\h1D6A8, \h1D6C0>>,
    <<\h1D6C2, \h1D6DA>>, <<\h1D6DC, \h1D6FA>>, <<\h1D6FC, \h1D714>>, <<\h1D716, \h1D734>>, <<\h1D736, \h1D74E>>,
    <<\h1D750, \h1D76E>>, <<\h1D770, \h1D788>>, <<\h1D78A, \h1D7A8>>, <<\h1D7AA, \h1D7C2>>, <<\h1D7C4, \h1D7CB>>,
    <<\h1DF00, \h1DF1E>>, <<\h1E100, \h1E12C>>, <<\h1E137, \h1E13D>>, <<\h1E14E, \h1E14E>>, <<\h1E290, \h1E2AD>>,
    <<\h1E2C0, \h1E2EB>>, <<\h1E7E0, \h1E7E6>>, <<\h1E7E8, \h1E7EB>>, <<\h1E7ED, \h1E7EE>>, <<\h1E7F0, \h1E7FE>>,
    <<\h1E800, \h1E8C4>>, <<\h1E900, \h1E943>>, <<\h1E94B, \h1E94B>>, <<\h1EE00, \h1EE03>>, <<\h1EE05, \h1EE1F>>,
    <<\h1EE21, \h1EE22>>, <<\h1EE24, \h1EE24>>, <<\h1EE27, \h1EE27>>, <<\h1EE29, \h1EE32>>, <<\h1EE34, \h1EE37>>,
    <<\h1EE39, \h1EE39>>, <<\h1EE3B, \h1EE3B>>, <<\h1EE42, \h1EE42>>, <<\h1EE47, \h1EE47>>, <<\h1EE49, \h1EE49>>,
    <<\h1EE4B, \h1EE4B>>, <<\h1EE4D, \h1EE4F>>, <<\h1EE51, \h1EE52>>, <<\h1EE54, \h1EE54>>, <<\h1EE57, \h1EE57>>,
    <<\h1EE59, \h1EE59>>, <<\h1EE5B, \h1EE5B>>, <<\h1EE5D, \h1EE5D>>, <<\h1EE5F, \h1EE5F>>, <<\h1EE61, \h1EE62>>,
    <<\h1EE64, \h1EE64>>, <<\h1EE67, \h1EE6A>>, <<\h1EE6C, \h1EE72>>, <<\h1EE74, \h1EE77>>, <<\h1EE79, \h1EE7C>>,
    <<\h1EE7E, \h1EE7E>>, <<\h1EE80, \h1EE89>>, <<\h1EE8B, \h1EE9B>>, <<\h1EEA1, \h1EEA3>>, <<\h1EEA5, \h1EEA9>>,
    <<\h1EEAB, \h1EEBB>>, <<\h20000, \h2A6DF>>, <<\h2A700, \h2B738>>, <<\h2B740, \h2B81D>>, <<\h2B820, \h2CEA1>>,
    <<\h2CEB0, \h2EBE0>>, <<\h2F800, \h2FA1D>>, <<\h30000, \h3134A>> >>

\* str.strip, str.split: the ranges of the whitespace characters
SpaceRanges == <<
    <<\h0009, \h000D>>, <<\h001C, \h0020>>, <<\h0085, \h0085>>, <<\h00A0, \h00A0>>, <<\h1680, \h1680>>,
    <<\h2000, \h200A>>, <<\h2028, \h2029>>, <<\h202F, \h202F>>, <<\h205F, \h205F>>, <<\h3000, \h3000>> >>

\* str.lower, final sigma rule: the ranges of the cased characters
CasedRanges == <<
    <<\h0041, \h005A>>, <<\h0061, \h007A>>, <<\h00AA, \h00AA>>, <<\h00B5, \h00B5>>, <<\h00BA, \h00BA>>,
    <<\h00C0, \h00D6>>, <<\h00D8, \h00F6>>, <<\h00F8, \h01BA>>, <<\h01BC, \h01BF>>, <<\h01C4, \h0293>>,
    <<\h0295, \h02B8>>, <<\h02C0, \h02C1>>, <<\h02E0, \h02E4>>, <<\h0345, \h0345>>, <<\h0370, \h0373>>,
    <<\h0376, \h0377>>, <<\h037A, \h037D>>, <<\h037F, \h037F>>, <<\h0386, \h0386>>, <<\h0388, \h038A>>,
    <<\h038C, \h038C>>, <<\h038E, \h03A1>>, <<\h03A3, \h03F5>>, <<\h03F7, \h0481>>, <<\h048A, \h052F>>,
    <<\h0531, \h0556>>, <<\h0560, \h0588>>, <<\h10A0, \h10C5>>, <<\h10C7, \h10C7>>, <<\h10CD, \h10CD>>,
    <<\h10D0, \h10FA>>, <<\h10FD, \h10FF>>, <<\h13A0, \h13F5>>, <<\h13F8, \h13FD>>, <<\h1C80, \h1C88>>,
    <<\h1C90, \h1CBA>>, <<\h1CBD, \h1CBF>>, <<\h1D00, \h1DBF>>, <<\h1E00, \h1F15>>, <<\h1F18, \h1F1D>>,
    <<\h1F20, \h1F45>>, <<\h1F48, \h1F4D>>, <<\h1F50, \h1F57>>, <<\h1F59, \h1F59>>, <<\h1F5B, \h1F5B>>,
    <<\h1F5D, \h1F5D>>, <<\h1F5F, \h1F7D>>, <<\h1F80, \h1FB4>>, <<\h1FB6, \h1FBC>>, <<\h1FBE, \h1FBE>>,
    <<\h1FC2, \h1FC4>>, <<\h1FC6, \h1FCC>>, <<\h1FD0, \h1FD3>>, <<\h1FD6, \h1FDB>>, <<\h1FE0, \h1FEC>>,
    <<\h1FF2, \h1FF4>>, <<\h1FF6, \h1FFC>>, <<\h2071, \h2071>>, <<\h207F, \h207F>>, <<\h2090, \h209C>>,
    <<\h2102, \h2102>>, <<\h2107, \h2107>>, <<\h210A, \h2113>>, <<\h2115, \h2115>>, <<\h2119, \h211D>>,
    <<\h2124, \h2124>>, <<\h2126, \h2126>>, <<\h2128, \h2128>>, <<\h212A, \h212D>>, <<\h212F, \h2134>>,
    <<\h2139, \h2139>>, <<\h213C, \h213F>>, <<\h2145, \h2149>>, <<\h214E, \h214E>>, <<\h2160, \h217F>>,
    <<\h2183, \h2184>>, <<\h24B6, \h24E9>>, <<\h2C00, \h2CE4>>, <<\h2CEB, \h2CEE>>, <<\h2CF2, \h2CF3>>,
    <<\h2D00, \h2D25>>, <<\h2D27, \h2D27>>, <<\h2D2D, \h2D2D>>, <<\hA640, \hA66D>>, <<\hA680, \hA69D>>,
    <<\hA722, \hA787>>, <<\hA78B, \hA78E>>, <<\hA790, \hA7CA>>, <<\hA7D0, \hA7D1>>, <<\hA7D3, \hA7D3>>,
    <<\hA7D5, \hA7D9>>, <<\hA7F5, \hA7F6>>, <<\hA7F8, \hA7FA>>, <<\hAB30, \hAB5A>>, <<\hAB5C, \hAB68>>,
    <<\hAB70, \hABBF>>, <<\hFB00, \hFB06>>, <<\hFB13, \hFB17>>, <<\hFF21, \hFF3A>>, <<\hFF41, \hFF5A>>,
    <<\h10400, \h1044F>>, <<\h104B0, \h104D3>>, <<\h104D8, \h104FB>>, <<\h10570, \h1057A>>, <<\h1057C, \h1058A>>,
    <<\h1058C, \h10592>>, <<\h10594, \h10595>>, <<\h10597, \h105A1>>, <<\h105A3, \h105B1>>, <<\h105B3, \h105B9>>,
    <<\h105BB, \h105BC>>, <<\h10780, \h10780>>, <<\h10783, \h10785>>, <<\h10787, \h107B0>>, <<\h107B2, \h107BA>>,
    <<\h10C80, \h10CB2>>, <<\h10CC0, \h10CF2>>, <<\h118A0, \h118DF>>, <<\h16E40, \h16E7F>>, <<\h1D400, \h1D454>>,
    <<\h1D456, \h1D49C>>, <<\h1D49E, \h1D49F>>, <<\h1D4A2, \h1D4A2>>, <<\h1D4A5, \h1D4A6>>, <<\h1D4A9, \h1D4AC>>,
    <<\h1D4AE, \h1D4B9>>, <<\h1D4BB, \h1D4BB>>, <<\h1D4BD, \h1D4C3>>, <<\h1D4C5, \h1D505>>, <<\h1D507, \h1D50A>>,
    <<\h1D50D, \h1D514>>, <<\h1D516, \h1D51C>>, <<\h1D51E, \h1D539>>, <<\h1D53B, \h1D53E>>, <<\h1D540, \h1D544>>,
    <<\h1D546, \h1D546>>, <<\h1D54A, \h1D550>>, <<\h1D552, \h1D6A5>>, <<\h1D6A8, \h1D6C0>>, <<\h1D6C2, \h1D6DA>>,
    <<\h1D6DC, \h1D6FA>>, <<\h1D6FC, \h1D714>>, <<\h1D716, \h1D734>>, <<\h1D736, \h1D74E>>, <<\h1D750, \h1D76E>>,
    <<\h1D770, \h1D788>>, <<\h1D78A, \h1D7A8>>, <<\h1D7AA, \h1D7C2>>, <<\h1D7C4, \h1D7CB>>, <<\h1DF00, \h1DF09>>,
    <<\h1DF0B, \h1DF1E>>, <<\h1E900, \h1E943>>, <<\h1F130, \h1F149>>, <<\h1F150, \h1F169>>, <<\h1F170, \h1F189>> >>

\* str.lower, final sigma rule: the ranges of the case-ignorable characters
CaseIgnorableRanges == <<
    <<\h0027, \h0027>>, <<\h002E, \h002E>>, <<\h003A, \h003A>>, <<\h005E, \h005E>>, <<\h0060, \h0060>>,
    <<\h00A8, \h00A8>>, <<\h00AD, \h00AD>>, <<\h00AF, \h00AF>>, <<\h00B4, \h00B4>>, <<\h00B7, \h00B8>>,
    <<\h02B0, \h036F>>, <<\h0374, \h0375>>, <<\h037A, \h037A>>, <<\h0384, \h0385>>, <<\h0387, \h0387>>,
    <<\h0483, \h0489>>, <<\h0559, \h0559>>, <<\h055F, \h055F>>, <<\h0591, \h05BD>>, <<\h05BF, \h05BF>>,
    <<\h05C1, \h05C2>>, <<\h05C4, \h05C5>>, <<\h05C7, \h05C7>>, <<\h05F4, \h05F4>>, <<\h0600, \h0605>>,
    <<\h0610, \h061A>>, <<\h061C, \h061C>>, <<\h0640, \h0640>>, <<\h064B, \h065F>>, <<\h0670, \h0670>>,
    <<\h06D6, \h06DD>>, <<\h06DF, \h06E8>>, <<\h06EA, \h06ED>>, <<\h070F, \h070F>>, <<\h0711, \h0711>>,
    <<\h0730, \h074A>>, <<\h07A6, \h07B0>>, <<\h07EB, \h07F5>>, <<\h07FA, \h07FA>>, <<\h07FD, \h07FD>>,
    <<\h0816, \h082D>>, <<\h0859, \h085B>>, <<\h0888, \h0888>>, <<\h0890, \h0891>>, <<\h0898, \h089F>>,
    <<\h08C9, \h0902>>, <<\h093A, \h093A>>, <<\h093C, \h093C>>, <<\h0941, \h0948>>, <<\h094D, \h094D>>,
    <<\h0951, \h0957>>, <<\h0962, \h0963>>, <<\h0971, \h0971>>, <<\h0981, \h0981>>, <<\h09BC, \h09BC>>,
    <<\h09C1, \h09C4>>, <<\h09CD, \h09CD>>, <<\h09E2, \h09E3>>, <<\h09FE, \h09FE>>, <<\h0A01, \h0A02>>,
    <<\h0A3C, \h0A3C>>, <<\h0A41, \h0A42>>, <<\h0A47, \h0A48>>, <<\h0A4B, \h0A4D>>, <<\h0A51, \h0A51>>,
    <<\h0A70, \h0A71>>, <<\h0A75, \h0A75>>, <<\h0A81, \h0A82>>, <<\h0ABC, \h0ABC>>, <<\h0AC1, \h0AC5>>,
    <<\h0AC7, \h0AC8>>, <<\h0ACD, \h0ACD>>, <<\h0AE2, \h0AE3>>, <<\h0AFA, \h0AFF>>, <<\h0B01, \h0B01>>,
    <<\h0B3C, \h0B3C>>, <<\h0B3F, \h0B3F>>, <<\h0B41, \h0B44>>, <<\h0B4D, \h0B4D>>, <<\h0B55, \h0B56>>,
    <<\h0B62, \h0B63>>, <<\h0B82, \h0B82>>, <<\h0BC0, \h0BC0>>, <<\h0BCD, \h0BCD>>, <<\h0C00, \h0C00>>,
    <<\h0C04, \h0C04>>, <<\h0C3C, \h0C3C>>, <<\h0C3E, \h0C40>>, <<\h0C46, \h0C48>>, <<\h0C4A, \h0C4D>>,
    <<\h0C55, \h0C56>>, <<\h0C62, \h0C63>>, <<\h0C81, \h0C81>>, <<\h0CBC, \h0CBC>>, <<\h0CBF, \h0CBF>>,
    <<\h0CC6, \h0CC6>>, <<\h0CCC, \h0CCD>>, <<\h0CE2, \h0CE3>>, <<\h0D00, \h0D01>>, <<\h0D3B, \h0D3C>>,
    <<\h0D41, \h0D44>>, <<\h0D4D, \h0D4D>>, <<\h0D62, \h0D63>>, <<\h0D81, \h0D81>>, <<\h0DCA, \h0DCA>>,
    <<\h0DD2, \h0DD4>>, <<\h0DD6, \h0DD6>>, <<\h0E31, \h0E31>>, <<\h0E34, \h0E3A>>, <<\h0E46, \h0E4E>>,
    <<\h0EB1, \h0EB1>>, <<\h0EB4, \h0EBC>>, <<\h0EC6, \h0EC6>>, <<\h0EC8, \h0ECD>>, <<\h0F18, \h0F19>>,
    <<\h0F35, \h0F35>>, <<\h0F37, \h0F37>>, <<\h0F39, \h0F39>>, <<\h0F71, \h0F7E>>, <<\h0F80, \h0F84>>,
    <<\h0F86, \h0F87>>, <<\h0F8D, \h0F97>>, <<\h0F99, \h0FBC>>, <<\h0FC6, \h0FC6>>, <<\h102D, \h1030>>,
    <<\h1032, \h1037>>, <<\h1039, \h103A>>, <<\h103D, \h103E>>, <<\h1058, \h1059>>, <<\h105E, \h1060>>,
    <<\h1071, \h1074>>, <<\h1082, \h1082>>, <<\h1085, \h1086>>, <<\h108D, \h108D>>, <<\h109D, \h109D>>,
    <<\h10FC, \h10FC>>, <<\h135D, \h135F>>, <<\h1712, \h1714>>, <<\h1732, \h1733>>, <<\h1752, \h1753>>,
    <<\h1772, \h1773>>, <<\h17B4, \h17B5>>, <<\h17B7, \h17BD>>, <<\h17C6, \h17C6>>, <<\h17C9, \h17D3>>,
    <<\h17D7, \h17D7>>, <<\h17DD, \h17DD>>, <<\h180B, \h180F>>, <<\h1843, \h1843>>, <<\h1885, \h1886>>,
    <<\h18A9, \h18A9>>, <<\h1920, \h1922>>, <<\h1927, \h1928>>, <<\h1932, \h1932>>, <<\h1939, \h193B>>,
    <<\h1A17, \h1A18>>, <<\h1A1B, \h1A1B>>, <<\h1A56, \h1A56>>, <<\h1A58, \h1A5E>>, <<\h1A60, \h1A60>>,
    <<\h1A62, \h1A62>>, <<\h1A65, \h1A6C>>, <<\h1A73, \h1A7C>>, <<\h1A7F, \h1A7F>>, <<\h1AA7, \h1AA7>>,
    <<\h1AB0, \h1ACE>>, <<\h1B00, \h1B03>>, <<\h1B34, \h1B34>>, <<\h1B36, \h1B3A>>, <<\h1B3C, \h1B3C>>,
    <<\h1B42, \h1B42>>, <<\h1B6B, \h1B73>>, <<\h1B80, \h1B81>>, <<\h1BA2, \h1BA5>>, <<\h1BA8, \h1BA9>>,
    <<\h1BAB, \h1BAD>>, <<\h1BE6, \h1BE6>>, <<\h1BE8, \h1BE9>>, <<\h1BED, \h1BED>>, <<\h1BEF, \h1BF1>>,
    <<\h1C2C, \h1C33>>, <<\h1C36, \h1C37>>, <<\h1C78, \h1C7D>>, <<\h1CD0, \h1CD2>>, <<\h1CD4, \h1CE0>>,
    <<\h1CE2, \h1CE8>>, <<\h1CED, \h1CED>>, <<\h1CF4, \h1CF4>>, <<\h1CF8, \h1CF9>>, <<\h1D2C, \h1D6A>>,
    <<\h1D78, \h1D78>>, <<\h1D9B, \h1DFF>>, <<\h1FBD, \h1FBD>>, <<\h1FBF, \h1FC1>>, <<\h1FCD, \h1FCF>>,
    <<\h1FDD, \h1FDF>>, <<\h1FED, \h1FEF>>, <<\h1FFD, \h1FFE>>, <<\h200B, \h200F>>, <<\h2018, \h2019>>,
    <<\h2024, \h2024>>, <<\h2027, \h2027>>, <<\h202A, \h202E>>, <<\h2060, \h2064>>, <<\h2066, \h206F>>,
    <<\h2071, \h2071>>, <<\h207F, \h207F>>, <<\h2090, \h209C>>, <<\h20D0, \h20F0>>, <<\h2C7C, \h2C7D>>,
    <<\h2CEF, \h2CF1>>, <<\h2D6F, \h2D6F>>, <<\h2D7F, \h2D7F>>, <<\h2DE0, \h2DFF>>, <<\h2E2F, \h2E2F>>,
    <<\h3005, \h3005>>, <<\h302A, \h302D>>, <<\h3031, \h3035>>, <<\h303B, \h303B>>, <<\h3099, \h309E>>,
    <<\h30FC, \h30FE>>, <<\hA015, \hA015>>, <<\hA4F8, \hA4FD>>, <<\hA60C, \hA60C>>, <<\hA66F, \hA672>>,
    <<\hA674, \hA67D>>, <<\hA67F, \hA67F>>, <<\hA69C, \hA69F>>, <<\hA6F0, \hA6F1>>, <<\hA700, \hA721>>,
    <<\hA770, \hA770>>, <<\hA788, \hA78A>>, <<\hA7F2, \hA7F4>>, <<\hA7F8, \hA7F9>>, <<\hA802, \hA802>>,
    <<\hA806, \hA806>>, <<\hA80B, \hA80B>>, <<\hA825, \hA826>>, <<\hA82C, \hA82C>>, <<\hA8C4, \hA8C5>>,
    <<\hA8E0, \hA8F1>>, <<\hA8FF, \hA8FF>>, <<\hA926, \hA92D>>, <<\hA947, \hA951>>, <<\hA980, \hA982>>,
    <<\hA9B3, \hA9B3>>, <<\hA9B6, \hA9B9>>, <<\hA9BC, \hA9BD>>, <<\hA9CF, \hA9CF>>, <<\hA9E5, \hA9E6>>,
    <<\hAA29, \hAA2E>>, <<\hAA31, \hAA32>>, <<\hAA35, \hAA36>>, <<\hAA43, \hAA43>>, <<\hAA4C, \hAA4C>>,
    <<\hAA70, \hAA70>>, <<\hAA7C, \hAA7C>>, <<\hAAB0, \hAAB0>>, <<\hAAB2, \hAAB4>>, <<\hAAB7, \hAAB8>>,
    <<\hAABE, \hAABF>>, <<\hAAC1, \hAAC1>>, <<\hAADD, \hAADD>>, <<\hAAEC, \hAAED>>, <<\hAAF3, \hAAF4>>,
    <<\hAAF6, \hAAF6>>, <<\hAB5B, \hAB5F>>, <<\hAB69, \hAB6B>>, <<\hABE5, \hABE5>>, <<\hABE8, \hABE8>>,
    <<\hABED, \hABED>>, <<\hFB1E, \hFB1E>>, <<\hFBB2, \hFBC2>>, <<\hFE00, \hFE0F>>, <<\hFE13, \hFE13>>,
    <<\hFE20, \hFE2F>>, <<\hFE52, \hFE52>>, <<\hFE55, \hFE55>>, <<\hFEFF, \hFEFF>>, <<\hFF07, \hFF07>>,
    <<\hFF0E, \hFF0E>>, <<\hFF1A, \hFF1A>>, <<\hFF3E, \hFF3E>>, <<\hFF40, \hFF40>>, <<\hFF70, \hFF70>>,
    <<\hFF9E, \hFF9F>>, <<\hFFE3, \hFFE3>>, <<\hFFF9, \hFFFB>>, <<\h101FD, \h101FD>>, <<\h102E0, \h102E0>>,
    <<\h10376, \h1037A>>, <<\h10780, \h10785>>, <<\h10787, \h107B0>>, <<\h107B2, \h107BA>>, <<\h10A01, \h10A03>>,
    <<\h10A05, \h10A06>>, <<\h10A0C, \h10A0F>>, <<\h10A38, \h10A3A>>, <<\h10A3F, \h10A3F>>, <<\h10AE5, \h10AE6>>,
    <<\h10D24, \h10D27>>, <<\h10EAB, \h10EAC>>, <<\h10F46, \h10F50>>, <<\h10F82, \h10F85>>, <<\h11001, \h11001>>,
    <<\h11038, \h11046>>, <<\h11070, \h11070>>, <<\h11073, \h11074>>, <<\h1107F, \h11081>>, <<\h110B3, \h110B6>>,
    <<\h110B9, \h110BA>>, <<\h110BD, \h110BD>>, <<\h110C2, \h110C2>>, <<\h110CD, \h110CD>>, <<\h11100, \h11102>>,
    <<\h11127, \h1112B>>, <<\h1112D, \h11134>>, <<\h11173, \h11173>>, <<\h11180, \h11181>>, <<\h111B6, \h111BE>>,
    <<\h111C9, \h111CC>>, <<\h111CF, \h111CF>>, <<\h1122F, \h11231>>, <<\h11234, \h11234>>, <<\h11236, \h11237>>,
    <<\h1123E, \h1123E>>, <<\h112DF, \h112DF>>, <<\h112E3, \h112EA>>, <<\h11300, \h11301>>, <<\h1133B, \h1133C>>,
    <<\h11340, \h11340>>, <<\h11366, \h1136C>>, <<\h11370, \h11374>>, <<\h11438, \h1143F>>, <<\h11442, \h11444>>,
    <<\h11446, \h11446>>, <<\h1145E, \h1145E>>, <<\h114B3, \h114B8>>, <<\h114BA, \h114BA>>, <<\h114BF, \h114C0>>,
    <<\h114C2, \h114C3>>, <<\h115B2, \h115B5>>, <<\h115BC, \h115BD>>, <<\h115BF, \h115C0>>, <<\h115DC, \h115DD>>,
    <<\h11633, \h1163A>>, <<\h1163D, \h1163D>>, <<\h1163F, \h11640>>, <<\h116AB, \h116AB>>, <<\h116AD, \h116AD>>,
    <<\h116B0, \h116B5>>, <<\h116B7, \h116B7>>, <<\h1171D, \h1171F>>, <<\h11722, \h11725>>, <<\h11727, \h1172B>>,
    <<\h1182F, \h11837>>, <<\h11839, \h1183A>>, <<\h1193B, \h1193C>>, <<\h1193E, \h1193E>>, <<\h11943, \h11943>>,
    <<\h119D4, \h119D7>>, <<\h119DA, \h119DB>>, <<\h119E0, \h119E0>>, <<\h11A01, \h11A0A>>, <<\h11A33, \h11A38>>,
    <<\h11A3B, \h11A3E>>, <<\h11A47, \h11A47>>, <<\h11A51, \h11A56>>, <<\h11A59, \h11A5B>>, <<\h11A8A, \h11A96>>,
    <<\h11A98, \h11A99>>, <<\h11C30, \h11C36>>, <<\h11C38, \h11C3D>>, <<\h11C3F, \h11C3F>>, <<\h11C92, \h11CA7>>,
    <<\h11CAA, \h11CB0>>, <<\h11CB2, \h11CB3>>, <<\h11CB5, \h11CB6>>, <<\h11D31, \h11D36>>, <<\h11D3A, \h11D3A>>,
    <<\h11D3C, \h11D3D>>, <<\h11D3F, \h11D45>>, <<\h11D47, \h11D47>>, <<\h11D90, \h11D91>>, <<\h11D95, \h11D95>>,
    <<\h11D97, \h11D97>>, <<\h11EF3, \h11EF4>>, <<\h13430, \h13438>>, <<\h16AF0, \h16AF4>>, <<\h16B30, \h16B36>>,
    <<\h16B40, \h16B43>>, <<\h16F4F, \h16F4F>>, <<\h16F8F, \h16F9F>>, <<\h16FE0, \h16FE1>>, <<\h16FE3, \h16FE4>>,
    <<\h1AFF0, \h1AFF3>>, <<\h1AFF5, \h1AFFB>>, <<\h1AFFD, \h1AFFE>>, <<\h1BC9D, \h1BC9E>>, <<\h1BCA0, \h1BCA3>>,
    <<\h1CF00, \h1CF2D>>, <<\h1CF30, \h1CF46>>, <<\h1D167, \h1D169>>, <<\h1D173, \h1D182>>, <<\h1D185, \h1D18B>>,
    <<\h1D1AA, \h1D1AD>>, <<\h1D242, \h1D244>>, <<\h1DA00, \h1DA36>>, <<\h1DA3B, \h1DA6C>>, <<\h1DA75, \h1DA75>>,
    <<\h1DA84, \h1DA84>>, <<\h1DA9B, \h1DA9F>>, <<\h1DAA1, \h1DAAF>>, <<\h1E000, \h1E006>>, <<\h1E008, \h1E018>>,
    <<\h1E01B, \h1E021>>, <<\h1E023, \h1E024>>, <<\h1E026, \h1E02A>>, <<\h1E130, \h1E13D>>, <<\h1E2AE, \h1E2AE>>,
    <<\h1E2EC, \h1E2EF>>, <<\h1E8D0, \h1E8D6>>, <<\h1E944, \h1E94B>>, <<\h1F3FB, \h1F3FF>>, <<\hE0001, \hE0001>>,
    <<\hE0020, \hE007F>>, <<\hE0100, \hE01EF>> >>

\* str.lower: runs <<first, last, step, delta>>; every step-th character from
\* first to last has the one-character lowercase form delta code points on
LowerRuns == <<
    <<\h0041, \h005A, 1, 32>>, <<\h00C0, \h00D6, 1, 32>>, <<\h00D8, \h00DE, 1, 32>>,
    <<\h0100, \h012E, 2, 1>>, <<\h0132, \h0136, 2, 1>>, <<\h0139, \h0147, 2, 1>>,
    <<\h014A, \h0176, 2, 1>>, <<\h0178, \h0178, 1, -121>>, <<\h0179, \h017D, 2, 1>>,
    <<\h0181, \h0181, 1, 210>>, <<\h0182, \h0184, 2, 1>>, <<\h0186, \h0186, 1, 206>>,
    <<\h0187, \h0187, 1, 1>>, <<\h0189, \h018A, 1, 205>>, <<\h018B, \h018B, 1, 1>>,
    <<\h018E, \h018E, 1, 79>>, <<\h018F, \h018F, 1, 202>>, <<\h0190, \h0190, 1, 203>>,
    <<\h0191, \h0191, 1, 1>>, <<\h0193, \h0193, 1, 205>>, <<\h0194, \h0194, 1, 207>>,
    <<\h0196, \h0196, 1, 211>>, <<\h0197, \h0197, 1, 209>>, <<\h0198, \h0198, 1, 1>>,
    <<\h019C, \h019C, 1, 211>>, <<\h019D, \h019D, 1, 213>>, <<\h019F, \h019F, 1, 214>>,
    <<\h01A0, \h01A4, 2, 1>>, <<\h01A6, \h01A6, 1, 218>>, <<\h01A7, \h01A7, 1, 1>>,
    <<\h01A9, \h01A9, 1, 218>>, <<\h01AC, \h01AC, 1, 1>>, <<\h01AE, \h01AE, 1, 218>>,
    <<\h01AF, \h01AF, 1, 1>>, <<\h01B1, \h01B2, 1, 217>>, <<\h01B3, \h01B5, 2, 1>>,
    <<\h01B7, \h01B7, 1, 219>>, <<\h01B8, \h01B8, 1, 1>>, <<\h01BC, \h01BC, 1, 1>>,
    <<\h01C4, \h01C4, 1, 2>>, <<\h01C5, \h01C5, 1, 1>>, <<\h01C7, \h01C7, 1, 2>>,
    <<\h01C8, \h01C8, 1, 1>>, <<\h01CA, \h01CA, 1, 2>>, <<\h01CB, \h01DB, 2, 1>>,
    <<\h01DE, \h01EE, 2, 1>>, <<\h01F1, \h01F1, 1, 2>>, <<\h01F2, \h01F4, 2, 1>>,
    <<\h01F6, \h01F6, 1, -97>>, <<\h01F7, \h01F7, 1, -56>>, <<\h01F8, \h021E, 2, 1>>,
    <<\h0220, \h0220, 1, -130>>, <<\h0222, \h0232, 2, 1>>, <<\h023A, \h023A, 1, 10795>>,
    <<\h023B, \h023B, 1, 1>>, <<\h023D, \h023D, 1, -163>>, <<\h023E, \h023E, 1, 10792>>,
    <<\h0241, \h0241, 1, 1>>, <<\h0243, \h0243, 1, -195>>, <<\h0244, \h0244, 1, 69>>,
    <<\h0245, \h0245, 1, 71>>, <<\h0246, \h024E, 2, 1>>, <<\h0370, \h0372, 2, 1>>,
    <<\h0376, \h0376, 1, 1>>, <<\h037F, \h037F, 1, 116>>, <<\h0386, \h0386, 1, 38>>,
    <<\h0388, \h038A, 1, 37>>, <<\h038C, \h038C, 1, 64>>, <<\h038E, \h038F, 1, 63>>,
    <<\h0391, \h03A1, 1, 32>>, <<\h03A3, \h03AB, 1, 32>>, <<\h03CF, \h03CF, 1, 8>>,
    <<\h03D8, \h03EE, 2, 1>>, <<\h03F4, \h03F4, 1, -60>>, <<\h03F7, \h03F7, 1, 1>>,
    <<\h03F9, \h03F9, 1, -7>>, <<\h03FA, \h03FA, 1, 1>>, <<\h03FD, \h03FF, 1, -130>>,
    <<\h0400, \h040F, 1, 80>>, <<\h0410, \h042F, 1, 32>>, <<\h0460, \h0480, 2, 1>>,
    <<\h048A, \h04BE, 2, 1>>, <<\h04C0, \h04C0, 1, 15>>, <<\h04C1, \h04CD, 2, 1>>,
    <<\h04D0, \h052E, 2, 1>>, <<\h0531, \h0556, 1, 48>>, <<\h10A0, \h10C5, 1, 7264>>,
    <<\h10C7, \h10C7, 1, 7264>>, <<\h10CD, \h10CD, 1, 7264>>, <<\h13A0, \h13EF, 1, 38864>>,
    <<\h13F0, \h13F5, 1, 8>>, <<\h1C90, \h1CBA, 1, -3008>>, <<\h1CBD, \h1CBF, 1, -3008>>,
    <<\h1E00, \h1E94, 2, 1>>, <<\h1E9E, \h1E9E, 1, -7615>>, <<\h1EA0, \h1EFE, 2, 1>>,
    <<\h1F08, \h1F0F, 1, -8>>, <<\h1F18, \h1F1D, 1, -8>>, <<\h1F28, \h1F2F, 1, -8>>,
    <<\h1F38, \h1F3F, 1, -8>>, <<\h1F48, \h1F4D, 1, -8>>, <<\h1F59, \h1F5F, 2, -8>>,
    <<\h1F68, \h1F6F, 1, -8>>, <<\h1F88, \h1F8F, 1, -8>>, <<\h1F98, \h1F9F, 1, -8>>,
    <<\h1FA8, \h1FAF, 1, -8>>, <<\h1FB8, \h1FB9, 1, -8>>, <<\h1FBA, \h1FBB, 1, -74>>,
    <<\h1FBC, \h1FBC, 1, -9>>, <<\h1FC8, \h1FCB, 1, -86>>, <<\h1FCC, \h1FCC, 1, -9>>,
    <<\h1FD8, \h1FD9, 1, -8>>, <<\h1FDA, \h1FDB, 1, -100>>, <<\h1FE8, \h1FE9, 1, -8>>,
    <<\h1FEA, \h1FEB, 1, -112>>, <<\h1FEC, \h1FEC, 1, -7>>, <<\h1FF8, \h1FF9, 1, -128>>,
    <<\h1FFA, \h1FFB, 1, -126>>, <<\h1FFC, \h1FFC, 1, -9>>, <<\h2126, \h2126, 1, -7517>>,
    <<\h212A, \h212A, 1, -8383>>, <<\h212B, \h212B, 1, -8262>>, <<\h2132, \h2132, 1, 28>>,
    <<\h2160, \h216F, 1, 16>>, <<\h2183, \h2183, 1, 1>>, <<\h24B6, \h24CF, 1, 26>>,
    <<\h2C00, \h2C2F, 1, 48>>, <<\h2C60, \h2C60, 1, 1>>, <<\h2C62, \h2C62, 1, -10743>>,
    <<\h2C63, \h2C63, 1, -3814>>, <<\h2C64, \h2C64, 1, -10727>>, <<\h2C67, \h2C6B, 2, 1>>,
    <<\h2C6D, \h2C6D, 1, -10780>>, <<\h2C6E, \h2C6E, 1, -10749>>, <<\h2C6F, \h2C6F, 1, -10783>>,
    <<\h2C70, \h2C70, 1, -10782>>, <<\h2C72, \h2C72, 1, 1>>, <<\h2C75, \h2C75, 1, 1>>,
    <<\h2C7E, \h2C7F, 1, -10815>>, <<\h2C80, \h2CE2, 2, 1>>, <<\h2CEB, \h2CED, 2, 1>>,
    <<\h2CF2, \h2CF2, 1, 1>>, <<\hA640, \hA66C, 2, 1>>, <<\hA680, \hA69A, 2, 1>>,
    <<\hA722, \hA72E, 2, 1>>, <<\hA732, \hA76E, 2, 1>>, <<\hA779, \hA77B, 2, 1>>,
    <<\hA77D, \hA77D, 1, -35332>>, <<\hA77E, \hA786, 2, 1>>, <<\hA78B, \hA78B, 1, 1>>,
    <<\hA78D, \hA78D, 1, -42280>>, <<\hA790, \hA792, 2, 1>>, <<\hA796, \hA7A8, 2, 1>>,
    <<\hA7AA, \hA7AA, 1, -42308>>, <<\hA7AB, \hA7AB, 1, -42319>>, <<\hA7AC, \hA7AC, 1, -42315>>,
    <<\hA7AD, \hA7AD, 1, -42305>>, <<\hA7AE, \hA7AE, 1, -42308>>, <<\hA7B0, \hA7B0, 1, -42258>>,
    <<\hA7B1, \hA7B1, 1, -42282>>, <<\hA7B2, \hA7B2, 1, -42261>>, <<\hA7B3, \hA7B3, 1, 928>>,
    <<\hA7B4, \hA7C2, 2, 1>>, <<\hA7C4, \hA7C4, 1, -48>>, <<\hA7C5, \hA7C5, 1, -42307>>,
    <<\hA7C6, \hA7C6, 1, -35384>>, <<\hA7C7, \hA7C9, 2, 1>>, <<\hA7D0, \hA7D0, 1, 1>>,
    <<\hA7D6, \hA7D8, 2, 1>>, <<\hA7F5, \hA7F5, 1, 1>>, <<\hFF21, \hFF3A, 1, 32>>,
    <<\h10400, \h10427, 1, 40>>, <<\h104B0, \h104D3, 1, 40>>, <<\h10570, \h1057A, 1, 39>>,
    <<\h1057C, \h1058A, 1, 39>>, <<\h1058C, \h10592, 1, 39>>, <<\h10594, \h10595, 1, 39>>,
    <<\h10C80, \h10CB2, 1, 64>>, <<\h118A0, \h118BF, 1, 32>>, <<\h16E40, \h16E5F, 1, 32>>,
    <<\h1E900, \h1E921, 1, 34>> >>

\* str.lower: the character with a longer lowercase form
LowerSpecial == <<
    <<\h0130, <<\h0069, \h0307>>>> >>

\* str.upper: runs as for str.lower
UpperRuns == <<
    <<\h0061, \h007A, 1, -32>>, <<\h00B5, \h00B5, 1, 743>>, <<\h00E0, \h00F6, 1, -32>>,
    <<\h00F8, \h00FE, 1, -32>>, <<\h00FF, \h00FF, 1, 121>>, <<\h0101, \h012F, 2, -1>>,
    <<\h0131, \h0131, 1, -232>>, <<\h0133, \h0137, 2, -1>>, <<\h013A, \h0148, 2, -1>>,
    <<\h014B, \h0177, 2, -1>>, <<\h017A, \h017E, 2, -1>>, <<\h017F, \h017F, 1, -300>>,
    <<\h0180, \h0180, 1, 195>>, <<\h0183, \h0185, 2, -1>>, <<\h0188, \h0188, 1, -1>>,
    <<\h018C, \h018C, 1, -1>>, <<\h0192, \h0192, 1, -1>>, <<\h0195, \h0195, 1, 97>>,
    <<\h0199, \h0199, 1, -1>>, <<\h019A, \h019A, 1, 163>>, <<\h019E, \h019E, 1, 130>>,
    <<\h01A1, \h01A5, 2, -1>>, <<\h01A8, \h01A8, 1, -1>>, <<\h01AD, \h01AD, 1, -1>>,
    <<\h01B0, \h01B0, 1, -1>>, <<\h01B4, \h01B6, 2, -1>>, <<\h01B9, \h01B9, 1, -1>>,
    <<\h01BD, \h01BD, 1, -1>>, <<\h01BF, \h01BF, 1, 56>>, <<\h01C5, \h01C5, 1, -1>>,
    <<\h01C6, \h01C6, 1, -2>>, <<\h01C8, \h01C8, 1, -1>>, <<\h01C9, \h01C9, 1, -2>>,
    <<\h01CB, \h01CB, 1, -1>>, <<\h01CC, \h01CC, 1, -2>>, <<\h01CE, \h01DC, 2, -1>>,
    <<\h01DD, \h01DD, 1, -79>>, <<\h01DF, \h01EF, 2, -1>>, <<\h01F2, \h01F2, 1, -1>>,
    <<\h01F3, \h01F3, 1, -2>>, <<\h01F5, \h01F5, 1, -1>>, <<\h01F9, \h021F, 2, -1>>,
    <<\h0223, \h0233, 2, -1>>, <<\h023C, \h023C, 1, -1>>, <<\h023F, \h0240, 1, 10815>>,
    <<\h0242, \h0242, 1, -1>>, <<\h0247, \h024F, 2, -1>>, <<\h0250, \h0250, 1, 10783>>,
    <<\h0251, \h0251, 1, 10780>>, <<\h0252, \h0252, 1, 10782>>, <<\h0253, \h0253, 1, -210>>,
    <<\h0254, \h0254, 1, -206>>, <<\h0256, \h0257, 1, -205>>, <<\h0259, \h0259, 1, -202>>,
    <<\h025B, \h025B, 1, -203>>, <<\h025C, \h025C, 1, 42319>>, <<\h0260, \h0260, 1, -205>>,
    <<\h0261, \h0261, 1, 42315>>, <<\h0263, \h0263, 1, -207>>, <<\h0265, \h0265, 1, 42280>>,
    <<\h0266, \h0266, 1, 42308>>, <<\h0268, \h0268, 1, -209>>, <<\h0269, \h0269, 1, -211>>,
    <<\h026A, \h026A, 1, 42308>>, <<\h026B, \h026B, 1, 10743>>, <<\h026C, \h026C, 1, 42305>>,
    <<\h026F, \h026F, 1, -211>>, <<\h0271, \h0271, 1, 10749>>, <<\h0272, \h0272, 1, -213>>,
    <<\h0275, \h0275, 1, -214>>, <<\h027D, \h027D, 1, 10727>>, <<\h0280, \h0280, 1, -218>>,
    <<\h0282, \h0282, 1, 42307>>, <<\h0283, \h0283, 1, -218>>, <<\h0287, \h0287, 1, 42282>>,
    <<\h0288, \h0288, 1, -218>>, <<\h0289, \h0289, 1, -69>>, <<\h028A, \h028B, 1, -217>>,
    <<\h028C, \h028C, 1, -71>>, <<\h0292, \h0292, 1, -219>>, <<\h029D, \h029D, 1, 42261>>,
    <<\h029E, \h029E, 1, 42258>>, <<\h0345, \h0345, 1, 84>>, <<\h0371, \h0373, 2, -1>>,
    <<\h0377, \h0377, 1, -1>>, <<\h037B, \h037D, 1, 130>>, <<\h03AC, \h03AC, 1, -38>>,
    <<\h03AD, \h03AF, 1, -37>>, <<\h03B1, \h03C1, 1, -32>>, <<\h03C2, \h03C2, 1, -31>>,
    <<\h03C3, \h03CB, 1, -32>>, <<\h03CC, \h03CC, 1, -64>>, <<\h03CD, \h03CE, 1, -63>>,
    <<\h03D0, \h03D0, 1, -62>>, <<\h03D1, \h03D1, 1, -57>>, <<\h03D5, \h03D5, 1, -47>>,
    <<\h03D6, \h03D6, 1, -54>>, <<\h03D7, \h03D7, 1, -8>>, <<\h03D9, \h03EF, 2, -1>>,
    <<\h03F0, \h03F0, 1, -86>>, <<\h03F1, \h03F1, 1, -80>>, <<\h03F2, \h03F2, 1, 7>>,
    <<\h03F3, \h03F3, 1, -116>>, <<\h03F5, \h03F5, 1, -96>>, <<\h03F8, \h03F8, 1, -1>>,
    <<\h03FB, \h03FB, 1, -1>>, <<\h0430, \h044F, 1, -32>>, <<\h0450, \h045F, 1, -80>>,
    <<\h0461, \h0481, 2, -1>>, <<\h048B, \h04BF, 2, -1>>, <<\h04C2, \h04CE, 2, -1>>,
    <<\h04CF, \h04CF, 1, -15>>, <<\h04D1, \h052F, 2, -1>>, <<\h0561, \h0586, 1, -48>>,
    <<\h10D0, \h10FA, 1, 3008>>, <<\h10FD, \h10FF, 1, 3008>>, <<\h13F8, \h13FD, 1, -8>>,
    <<\h1C80, \h1C80, 1, -6254>>, <<\h1C81, \h1C81, 1, -6253>>, <<\h1C82, \h1C82, 1, -6244>>,
    <<\h1C83, \h1C84, 1, -6242>>, <<\h1C85, \h1C85, 1, -6243>>, <<\h1C86, \h1C86, 1, -6236>>,
    <<\h1C87, \h1C87, 1, -6181>>, <<\h1C88, \h1C88, 1, 35266>>, <<\h1D79, \h1D79, 1, 35332>>,
    <<\h1D7D, \h1D7D, 1, 3814>>, <<\h1D8E, \h1D8E, 1, 35384>>, <<\h1E01, \h1E95, 2, -1>>,
    <<\h1E9B, \h1E9B, 1, -59>>, <<\h1EA1, \h1EFF, 2, -1>>, <<\h1F00, \h1F07, 1, 8>>,
    <<\h1F10, \h1F15, 1, 8>>, <<\h1F20, \h1F27, 1, 8>>, <<\h1F30, \h1F37, 1, 8>>,
    <<\h1F40, \h1F45, 1, 8>>, <<\h1F51, \h1F57, 2, 8>>, <<\h1F60, \h1F67, 1, 8>>,
    <<\h1F70, \h1F71, 1, 74>>, <<\h1F72, \h1F75, 1, 86>>, <<\h1F76, \h1F77, 1, 100>>,
    <<\h1F78, \h1F79, 1, 128>>, <<\h1F7A, \h1F7B, 1, 112>>, <<\h1F7C, \h1F7D, 1, 126>>,
    <<\h1FB0, \h1FB1, 1, 8>>, <<\h1FBE, \h1FBE, 1, -7205>>, <<\h1FD0, \h1FD1, 1, 8>>,
    <<\h1FE0, \h1FE1, 1, 8>>, <<\h1FE5, \h1FE5, 1, 7>>, <<\h214E, \h214E, 1, -28>>,
    <<\h2170, \h217F, 1, -16>>, <<\h2184, \h2184, 1, -1>>, <<\h24D0, \h24E9, 1, -26>>,
    <<\h2C30, \h2C5F, 1, -48>>, <<\h2C61, \h2C61, 1, -1>>, <<\h2C65, \h2C65, 1, -10795>>,
    <<\h2C66, \h2C66, 1, -10792>>, <<\h2C68, \h2C6C, 2, -1>>, <<\h2C73, \h2C73, 1, -1>>,
    <<\h2C76, \h2C76, 1, -1>>, <<\h2C81, \h2CE3, 2, -1>>, <<\h2CEC, \h2CEE, 2, -1>>,
    <<\h2CF3, \h2CF3, 1, -1>>, <<\h2D00, \h2D25, 1, -7264>>, <<\h2D27, \h2D27, 1, -7264>>,
    <<\h2D2D, \h2D2D, 1, -7264>>, <<\hA641, \hA66D, 2, -1>>, <<\hA681, \hA69B, 2, -1>>,
    <<\hA723, \hA72F, 2, -1>>, <<\hA733, \hA76F, 2, -1>>, <<\hA77A, \hA77C, 2, -1>>,
    <<\hA77F, \hA787, 2, -1>>, <<\hA78C, \hA78C, 1, -1>>, <<\hA791, \hA793, 2, -1>>,
    <<\hA794, \hA794, 1, 48>>, <<\hA797, \hA7A9, 2, -1>>, <<\hA7B5, \hA7C3, 2, -1>>,
    <<\hA7C8, \hA7CA, 2, -1>>, <<\hA7D1, \hA7D1, 1, -1>>, <<\hA7D7, \hA7D9, 2, -1>>,
    <<\hA7F6, \hA7F6, 1, -1>>, <<\hAB53, \hAB53, 1, -928>>, <<\hAB70, \hABBF, 1, -38864>>,
    <<\hFF41, \hFF5A, 1, -32>>, <<\h10428, \h1044F, 1, -40>>, <<\h104D8, \h104FB, 1, -40>>,
    <<\h10597, \h105A1, 1, -39>>, <<\h105A3, \h105B1, 1, -39>>, <<\h105B3, \h105B9, 1, -39>>,
    <<\h105BB, \h105BC, 1, -39>>, <<\h10CC0, \h10CF2, 1, -64>>, <<\h118C0, \h118DF, 1, -32>>,
    <<\h16E60, \h16E7F, 1, -32>>, <<\h1E922, \h1E943, 1, -34>> >>

\* str.upper: the characters with a longer uppercase form
UpperSpecial == <<
    <<\h00DF, <<\h0053, \h0053>>>>, <<\h0149, <<\h02BC, \h004E>>>>, <<\h01F0, <<\h004A, \h030C>>>>,
    <<\h0390, <<\h0399, \h0308, \h0301>>>>, <<\h03B0, <<\h03A5, \h0308, \h0301>>>>, <<\h0587, <<\h0535, \h0552>>>>,
    <<\h1E96, <<\h0048, \h0331>>>>, <<\h1E97, <<\h0054, \h0308>>>>, <<\h1E98, <<\h0057, \h030A>>>>,
    <<\h1E99, <<\h0059, \h030A>>>>, <<\h1E9A, <<\h0041, \h02BE>>>>, <<\h1F50, <<\h03A5, \h0313>>>>,
    <<\h1F52, <<\h03A5, \h0313, \h0300>>>>, <<\h1F54, <<\h03A5, \h0313, \h0301>>>>, <<\h1F56, <<\h03A5, \h0313, \h0342>>>>,
    <<\h1F80, <<\h1F08, \h0399>>>>, <<\h1F81, <<\h1F09, \h0399>>>>, <<\h1F82, <<\h1F0A, \h0399>>>>,
    <<\h1F83, <<\h1F0B, \h0399>>>>, <<\h1F84, <<\h1F0C, \h0399>>>>, <<\h1F85, <<\h1F0D, \h0399>>>>,
    <<\h1F86, <<\h1F0E, \h0399>>>>, <<\h1F87, <<\h1F0F, \h0399>>>>, <<\h1F88, <<\h1F08, \h0399>>>>,
    <<\h1F89, <<\h1F09, \h0399>>>>, <<\h1F8A, <<\h1F0A, \h0399>>>>, <<\h1F8B, <<\h1F0B, \h0399>>>>,
    <<\h1F8C, <<\h1F0C, \h0399>>>>, <<\h1F8D, <<\h1F0D, \h0399>>>>, <<\h1F8E, <<\h1F0E, \h0399>>>>,
    <<\h1F8F, <<\h1F0F, \h0399>>>>, <<\h1F90, <<\h1F28, \h0399>>>>, <<\h1F91, <<\h1F29, \h0399>>>>,
    <<\h1F92, <<\h1F2A, \h0399>>>>, <<\h1F93, <<\h1F2B, \h0399>>>>, <<\h1F94, <<\h1F2C, \h0399>>>>,
    <<\h1F95, <<\h1F2D, \h0399>>>>, <<\h1F96, <<\h1F2E, \h0399>>>>, <<\h1F97, <<\h1F2F, \h0399>>>>,
    <<\h1F98, <<\h1F28, \h0399>>>>, <<\h1F99, <<\h1F29, \h0399>>>>, <<\h1F9A, <<\h1F2A, \h0399>>>>,
    <<\h1F9B, <<\h1F2B, \h0399>>>>, <<\h1F9C, <<\h1F2C, \h0399>>>>, <<\h1F9D, <<\h1F2D, \h0399>>>>,
    <<\h1F9E, <<\h1F2E, \h0399>>>>, <<\h1F9F, <<\h1F2F, \h0399>>>>, <<\h1FA0, <<\h1F68, \h0399>>>>,
    <<\h1FA1, <<\h1F69, \h0399>>>>, <<\h1FA2, <<\h1F6A, \h0399>>>>, <<\h1FA3, <<\h1F6B, \h0399>>>>,
    <<\h1FA4, <<\h1F6C, \h0399>>>>, <<\h1FA5, <<\h1F6D, \h0399>>>>, <<\h1FA6, <<\h1F6E, \h0399>>>>,
    <<\h1FA7, <<\h1F6F, \h0399>>>>, <<\h1FA8, <<\h1F68, \h0399>>>>, <<\h1FA9, <<\h1F69, \h0399>>>>,
    <<\h1FAA, <<\h1F6A, \h0399>>>>, <<\h1FAB, <<\h1F6B, \h0399>>>>, <<\h1FAC, <<\h1F6C, \h0399>>>>,
    <<\h1FAD, <<\h1F6D, \h0399>>>>, <<\h1FAE, <<\h1F6E, \h0399>>>>, <<\h1FAF, <<\h1F6F, \h0399>>>>,
    <<\h1FB2, <<\h1FBA, \h0399>>>>, <<\h1FB3, <<\h0391, \h0399>>>>, <<\h1FB4, <<\h0386, \h0399>>>>,
    <<\h1FB6, <<\h0391, \h0342>>>>, <<\h1FB7, <<\h0391, \h0342, \h0399>>>>, <<\h1FBC, <<\h0391, \h0399>>>>,
    <<\h1FC2, <<\h1FCA, \h0399>>>>, <<\h1FC3, <<\h0397, \h0399>>>>, <<\h1FC4, <<\h0389, \h0399>>>>,
    <<\h1FC6, <<\h0397, \h0342>>>>, <<\h1FC7, <<\h0397, \h0342, \h0399>>>>, <<\h1FCC, <<\h0397, \h0399>>>>,
    <<\h1FD2, <<\h0399, \h0308, \h0300>>>>, <<\h1FD3, <<\h0399, \h0308, \h0301>>>>, <<\h1FD6, <<\h0399, \h0342>>>>,
    <<\h1FD7, <<\h0399, \h0308, \h0342>>>>, <<\h1FE2, <<\h03A5, \h0308, \h0300>>>>, <<\h1FE3, <<\h03A5, \h0308, \h0301>>>>,
    <<\h1FE4, <<\h03A1, \h0313>>>>, <<\h1FE6, <<\h03A5, \h0342>>>>, <<\h1FE7, <<\h03A5, \h0308, \h0342>>>>,
    <<\h1FF2, <<\h1FFA, \h0399>>>>, <<\h1FF3, <<\h03A9, \h0399>>>>, <<\h1FF4, <<\h038F, \h0399>>>>,
    <<\h1FF6, <<\h03A9, \h0342>>>>, <<\h1FF7, <<\h03A9, \h0342, \h0399>>>>, <<\h1FFC, <<\h03A9, \h0399>>>>,
    <<\hFB00, <<\h0046, \h0046>>>>, <<\hFB01, <<\h0046, \h0049>>>>, <<\hFB02, <<\h0046, \h004C>>>>,
    <<\hFB03, <<\h0046, \h0046, \h0049>>>>, <<\hFB04, <<\h0046, \h0046, \h004C>>>>, <<\hFB05, <<\h0053, \h0054>>>>,
    <<\hFB06, <<\h0053, \h0054>>>>, <<\hFB13, <<\h0544, \h0546>>>>, <<\hFB14, <<\h0544, \h0535>>>>,
    <<\hFB15, <<\h0544, \h053B>>>>, <<\hFB16, <<\h054E, \h0546>>>>, <<\hFB17, <<\h0544, \h053D>>>> >>

Min(a, b) == IF a < b THEN a ELSE b

\* The table lookups bind their argument to x, so that it is evaluated once.

\* c lies in one of the ranges
InRanges(c, ranges) ==
    \E x \in {c} : \E i \in 1..Len(ranges) : ranges[i][1] <= x /\ x <= ranges[i][2]
\* the run maps x
Maps(run, x) == run[1] <= x /\ x <= run[2] /\ (x - run[1]) % run[3] = 0
\* the one-character form of c under the runs, c itself when no run maps it
Mapped(c, runs) ==
    [x \in {c} |->
        IF \E i \in 1..Len(runs) : Maps(runs[i], x)
        THEN x + runs[CHOOSE i \in 1..Len(runs) : Maps(runs[i], x)][4]
        ELSE x][c]
\* the longer form of c in the table, the empty string when it has none
Special(c, table) ==
    [x \in {c} |->
        IF \E i \in 1..Len(table) : table[i][1] = x
        THEN table[CHOOSE i \in 1..Len(table) : table[i][1] = x][2]
        ELSE <<>>][c]

\* the concatenation of the strings ss[i], ss[i + 1], ...
RECURSIVE FlattenFrom(_, _)
FlattenFrom(ss, i) == IF i > Len(ss) THEN <<>> ELSE ss[i] \o FlattenFrom(ss, i + 1)
Flatten(ss) == FlattenFrom(ss, 1)

\* str.isspace on one character
IsSpaceChar(c) == InRanges(c, SpaceRanges)
\* str.isalpha on one character
IsAlphaChar(c) == InRanges(c, AlphaRanges)
\* str.lower on a one-character string: a string of one or two characters
LowerChar(c) ==
    IF Special(c, LowerSpecial) # <<>> THEN Special(c, LowerSpecial)
    ELSE <<Mapped(c, LowerRuns)>>
\* str.upper on a one-character string: a string of one to three characters
UpperChar(c) ==
    IF Special(c, UpperSpecial) # <<>> THEN Special(c, UpperSpecial)
    ELSE <<Mapped(c, UpperRuns)>>

CapitalSigma == \h03A3
SmallFinalSigma == \h03C2
\* str.lower writes the capital sigma at s[i] as the final sigma: the nearest
\* character before it that is not case-ignorable is cased, and the nearest
\* such character after it, if there is one, is not
FinalSigma(s, i) ==
    LET before == {j \in 1..(i - 1) : ~InRanges(s[j], CaseIgnorableRanges)}
        after == {j \in (i + 1)..Len(s) : ~InRanges(s[j], CaseIgnorableRanges)}
    IN /\ before # {}
       /\ InRanges(s[CHOOSE j \in before : \A k \in before : k <= j], CasedRanges)
       /\ after # {} => ~InRanges(s[CHOOSE j \in after : \A k \in after : j <= k], CasedRanges)
\* str.lower
Lower(s) ==
    Flatten([i \in 1..Len(s) |->
                IF s[i] = CapitalSigma /\ FinalSigma(s, i)
                THEN <<SmallFinalSigma>>
                ELSE LowerChar(s[i])])
\* str.upper
Upper(s) == Flatten([i \in 1..Len(s) |-> UpperChar(s[i])])
\* str.isalpha: non-empty and every character alphabetic
IsAlpha(s) == Len(s) > 0 /\ \A i \in 1..Len(s) : IsAlphaChar(s[i])

\* str.strip: drop leading and trailing whitespace
RECURSIVE LStrip(_)
LStrip(s) == IF s # <<>> /\ IsSpaceChar(Head(s)) THEN LStrip(Tail(s)) ELSE s
RECURSIVE RStrip(_)
RStrip(s) ==
    IF s # <<>> /\ IsSpaceChar(s[Len(s)]) THEN RStrip(SubSeq(s, 1, Len(s) - 1)) ELSE s
Strip(s) == RStrip(LStrip(s))

\* Python's < on strings: by code point, a proper prefix first
RECURSIVE StrLess(_, _)
StrLess(a, b) ==
    IF b = <<>> THEN FALSE
    ELSE IF a = <<>> THEN TRUE
    ELSE IF Head(a) = Head(b) THEN StrLess(Tail(a), Tail(b))
    ELSE Head(a) < Head(b)

-----------------------------------------------------------------------------
(* Trie *)

None == 0
Root == 1
NoChildren == [ch \in {} |-> None]
NewNode == [children |-> NoChildren, terminal |-> FALSE]
NewTrie == <<NewNode>>

\* Trie.step: n.children.get(ch)
Step(ns, n, ch) == IF ch \in DOMAIN ns[n].children THEN ns[n].children[ch] ELSE None

SetChild(kids, ch, id) == [x \in DOMAIN kids \cup {ch} |-> IF x = ch THEN id ELSE kids[x]]

\* mutant: the terminal flag is set on every node of the word's path
RECURSIVE AddFromMarkAll(_, _, _, _)
AddFromMarkAll(ns, n, s, i) ==
    IF i > Len(s) THEN [ns EXCEPT ![n].terminal = TRUE]
    ELSE LET nxt == Step(ns, n, s[i])
             ms == [ns EXCEPT ![n].terminal = TRUE]
         IN IF nxt = None
            THEN AddFromMarkAll(
                     Append([ms EXCEPT ![n].children = SetChild(@, s[i], Len(ns) + 1)], NewNode),
                     Len(ns) + 1, s, i + 1)
            ELSE AddFromMarkAll(ms, nxt, s, i + 1)

\* the loop of Trie.add from node n at character i, then n.terminal = True
RECURSIVE AddFrom(_, _, _, _)
AddFrom(ns, n, s, i) ==
    IF i > Len(s) THEN [ns EXCEPT ![n].terminal = TRUE]
    ELSE LET nxt == Step(ns, n, s[i])
         IN IF nxt = None
            THEN AddFrom(
                     Append([ns EXCEPT ![n].children = SetChild(@, s[i], Len(ns) + 1)], NewNode),
                     Len(ns) + 1, s, i + 1)
            ELSE AddFrom(ns, nxt, s, i + 1)

TrieAddMarkAll(ns, s) == AddFromMarkAll(ns, Root, s, 1)

\* Trie.add
TrieAdd(ns, s) == AddFrom(ns, Root, s, 1)

-----------------------------------------------------------------------------
(* load_trie *)

\* line.strip().lower()
CleanLine(line) == Lower(Strip(line))
\* the filter in front of t.add(s)
Accepted(s) == Len(s) >= MIN_LEN /\ IsAlpha(s)

-----------------------------------------------------------------------------
(* parse_grid *)

Rows == 0..(N - 1)
Cells == Rows \X Rows

\* str.split(): the maximal runs of characters that are no whitespace
Split(s) ==
    LET n == Len(s)
        \* the last character of the run that s[i] is in
        RunEnd[i \in 1..n] == IF i < n /\ ~IsSpaceChar(s[i + 1]) THEN RunEnd[i + 1] ELSE i
        \* the runs from s[i] on
        RunsFrom[i \in 1..(n + 1)] ==
            IF i > n THEN <<>>
            ELSE IF IsSpaceChar(s[i]) THEN RunsFrom[i + 1]
            ELSE <<SubSeq(s, i, RunEnd[i])>> \o RunsFrom[RunEnd[i] + 1]
    IN RunsFrom[1]

\* str.split(sep) for a one-character sep: the pieces between the separators,
\* empty ones kept
SplitAt(s, sep) ==
    LET n == Len(s)
        \* the last character of the piece that begins at s[i]
        PieceEnd[i \in 1..(n + 1)] == IF i <= n /\ s[i] # sep THEN PieceEnd[i + 1] ELSE i - 1
        \* the pieces from the one that begins at s[i] on
        PiecesFrom[i \in 1..(n + 1)] ==
            IF PieceEnd[i] = n THEN <<SubSeq(s, i, n)>>
            ELSE <<SubSeq(s, i, PieceEnd[i])>> \o PiecesFrom[PieceEnd[i] + 2]
    IN PiecesFrom[1]

\* cols = [c.split(",") for c in chunks]
Cols(chunks) == [j \in 1..Len(chunks) |-> SplitAt(chunks[j], Comma)]

\* len(chunks) != 7
BadCols(chunks) == Len(chunks) # N
\* any(len(col) != 7 for col in cols)
BadRows(cols) == \E j \in 1..Len(cols) : Len(cols[j]) # N

TokenQ == Str(<<"Q">>)
TokenQU == Str(<<"Q", "U">>)
TileQu == Str(<<"q", "u">>)

\* flat.append("Q" if t in ("Q", "QU") else t), with t = tile.strip().upper()
FlatToken(tile) ==
    LET t == Upper(Strip(tile))
    IN IF t = TokenQ \/ t = TokenQU THEN TokenQ ELSE t

\* grid[r][c] = "qu" if ch == "Q" else ch.lower()
TileText(ch) == IF ch = TokenQ THEN TileQu ELSE Lower(ch)

\* flat is column-major: flat[c * 7 + r] lands in grid[r][c]
GridOf(cols) == [cell \in Cells |-> TileText(FlatToken(cols[cell[2] + 1][cell[1] + 1]))]

-----------------------------------------------------------------------------
(* neighbor_offsets *)

\* mutant: the diagonal pairs of odd and even columns are exchanged
NeighborOffsetsFlipped(col) ==
    <<<<0, -1>>, <<0, 1>>, <<-1, 0>>, <<1, 0>>>> \o
    (IF col % 2 = 0 THEN <<<<-1, -1>>, <<-1, 1>>>> ELSE <<<<1, -1>>, <<1, 1>>>>)

NeighborOffsets(col) ==
    <<<<0, -1>>, <<0, 1>>, <<-1, 0>>, <<1, 0>>>> \o
    (IF col % 2 = 1 THEN <<<<-1, -1>>, <<-1, 1>>>> ELSE <<<<1, -1>>, <<1, 1>>>>)

\* 0 <= nr < 7 and 0 <= nc < 7
InBounds(nr, nc) == 0 <= nr /\ nr < N /\ 0 <= nc /\ nc < N

-----------------------------------------------------------------------------
(* explore *)

\* mutant: only the tile's first letter is matched against the trie
RECURSIVE WalkTileFirstLetter(_, _, _, _)
WalkTileFirstLetter(ns, cur, tile, i) ==
    IF i > Min(1, Len(tile)) THEN cur
    ELSE LET nxt == Step(ns, cur, tile[i])
         IN IF nxt = None THEN None ELSE WalkTileFirstLetter(ns, nxt, tile, i + 1)

\* for ch in tile: cur = trie.step(cur, ch); None when a letter has no child
RECURSIVE WalkTile(_, _, _, _)
WalkTile(ns, cur, tile, i) ==
    IF i > Len(tile) THEN cur
    ELSE LET nxt == Step(ns, cur, tile[i])
         IN IF nxt = None THEN None ELSE WalkTile(ns, nxt, tile, i + 1)

\* "".join(buf)
RECURSIVE Join(_)
Join(b) == IF b = <<>> THEN <<>> ELSE Head(b) \o Join(Tail(b))

\* s[:2]
Prefix2(s) == SubSeq(s, 1, Min(2, Len(s)))

KeyIndex(cs, k) == {i \in 1..Len(cs) : cs[i].key = k}

\* counts[k] += 1 on a defaultdict(int): a missing key is inserted last
Increment(cs, k) ==
    IF KeyIndex(cs, k) = {} THEN Append(cs, [key |-> k, n |-> 1])
    ELSE [i \in 1..Len(cs) |-> IF cs[i].key = k THEN [cs[i] EXCEPT !.n = @ + 1] ELSE cs[i]]

\* the condition under which a word is newly recorded
IsLongWord(ns, cur, s) == ns[cur].terminal /\ Len(s) >= MIN_LEN

\* mutant: only words longer than MIN_LEN are recorded
RecordsLongerOnly(ns, cur, s, sn) == ns[cur].terminal /\ Len(s) > MIN_LEN /\ s \notin sn

\* mutant: a word is counted every time it is reached
RecordsAlways(ns, cur, s, sn) == IsLongWord(ns, cur, s)

Records(ns, cur, s, sn) == IsLongWord(ns, cur, s) /\ s \notin sn

-----------------------------------------------------------------------------
(* build_clue *)

MARKER == <<\h2714, \hFE0F>>    \* the two code points of the check mark

\* str(n) in decimal
RECURSIVE Digits(_)
Digits(n) ==
    IF n < 10 THEN <<DigitZero + n>>
    ELSE Digits(n \div 10) \o <<DigitZero + (n % 10)>>

RECURSIVE InsertSorted(_, _)
InsertSorted(k, ks) ==
    IF ks = <<>> THEN <<k>>
    ELSE IF StrLess(k, Head(ks)) THEN <<k>> \o ks
    ELSE <<Head(ks)>> \o InsertSorted(k, Tail(ks))

RECURSIVE SortFrom(_, _)
SortFrom(ks, acc) == IF ks = <<>> THEN acc ELSE SortFrom(Tail(ks), InsertSorted(Head(ks), acc))

\* mutant: the keys are taken in the dictionary's insertion order
SortedKeysUnsorted(cs) == [i \in 1..Len(cs) |-> cs[i].key]

\* sorted(counts.keys())
SortedKeys(cs) == SortFrom([i \in 1..Len(cs) |-> cs[i].key], <<>>)

\* counts[k]
CountOf(cs, k) == cs[CHOOSE i \in KeyIndex(cs, k) : TRUE].n

\* " ".join(parts)
RECURSIVE JoinSpaces(_)
JoinSpaces(parts) ==
    IF parts = <<>> THEN <<>>
    ELSE IF Len(parts) = 1 THEN Head(parts)
    ELSE Head(parts) \o <<Space>> \o JoinSpaces(Tail(parts))

BuildClue(cs) ==
    LET ks == SortedKeys(cs)
        parts == [i \in 1..Len(ks) |-> Digits(CountOf(cs, ks[i])) \o ks[i]]
    IN IF parts # <<>> THEN JoinSpaces(parts) \o <<Space>> \o MARKER ELSE MARKER

-----------------------------------------------------------------------------
(* Inputs *)

\* the lines a word file is drawn from, end of line included
LinePool == <<
    Str(<<"t","e","s","t">>) \o <<NewLine>>,
    Str(<<"T","E","S","T">>) \o <<\h000C, \h1680, NewLine>>,
    Str(<<"t","e","s","t","s">>) \o <<NewLine>>,
    Str(<<"q","u","i","t">>) \o <<NewLine>>,
    Str(<<"q","i","t","s">>) \o <<NewLine>>,
    Str(<<"s","u","i","t">>) \o <<NewLine>>,
    Str(<<"s","e","t">>) \o <<NewLine>>,
    Str(<<"i","t","'","s">>) \o <<NewLine>>,
    Str(<<"t","e","s","s","t">>) \o <<NewLine>>,
    <<\h00C9>> \o Str(<<"t">>) \o <<\h00E9>> \o Str(<<"s">>) \o <<\h00A0, NewLine>>,
    <<\h03A3, \h03A9, \h03C9, \h03A9, NewLine>> >>

RECURSIVE LinesAt(_)
LinesAt(I) ==
    IF I = {} THEN <<>>
    ELSE LET m == CHOOSE x \in I : \A y \in I : x <= y
         IN <<LinePool[m]>> \o LinesAt(I \ {m})

\* word files: up to MaxWords lines of the pool, in pool order
WordFiles == {LinesAt(I) : I \in {J \in SUBSET (1..Len(LinePool)) : Cardinality(J) <= MaxWords}}

\* the tokens of the boards below, by name
TokenChars ==
    [t \in {"T", "E", "S", "I", "X", "QU", "q", "sharp s", "E acute", "e acute",
            "Omega", "omega", "Sigma"} |->
        CASE t = "QU" -> Str(<<"Q", "U">>)
          [] t = "sharp s" -> <<\h00DF>>
          [] t = "E acute" -> <<\h00C9>>
          [] t = "e acute" -> <<\h00E9>>
          [] t = "Omega" -> <<\h03A9>>
          [] t = "omega" -> <<\h03C9>>
          [] t = "Sigma" -> <<\h03A3>>
          [] OTHER -> Str(<<t>>)]

\* sep.join(parts)
RECURSIVE JoinWith(_, _)
JoinWith(sep, parts) ==
    IF parts = <<>> THEN <<>>
    ELSE IF Len(parts) = 1 THEN Head(parts)
    ELSE Head(parts) \o sep \o JoinWith(sep, Tail(parts))

\* the letter list of a board drawn row by row: one comma-separated group per
\* column, the groups gap apart
LetterList(rows, gap) ==
    JoinWith(gap,
             [j \in 1..Len(rows[1]) |->
                 JoinWith(<<Comma>>, [i \in 1..Len(rows) |-> TokenChars[rows[i][j]]])])

\* the example of the specification: t, e, s, t on a chain of adjacent cells
\* from a corner, the last step a diagonal one
BoardExample == <<
    <<"T","E","S","X","X","X","X">>,
    <<"X","X","X","T","X","X","X">>,
    <<"X","X","X","X","X","X","X">>,
    <<"X","X","X","X","X","X","X">>,
    <<"X","X","X","X","X","X","X">>,
    <<"X","X","X","X","X","X","X">>,
    <<"X","X","X","X","X","X","X">> >>

\* a qu tile between s and i, t, s; above it a sharp s, whose tile is the two
\* letters ss, and below it letters outside ASCII
BoardQu == <<
    <<"T","E","sharp s","T","X","X","X">>,
    <<"X","X","X","X","X","X","X">>,
    <<"X","X","X","X","X","X","X">>,
    <<"X","X","S","q","I","T","S">>,
    <<"X","X","X","X","X","X","X">>,
    <<"Sigma","Omega","omega","Omega","X","X","X">>,
    <<"X","X","X","E acute","T","e acute","S">> >>

\* several paths for the same words, and words with two different prefixes
BoardDense == <<
    <<"X","X","X","X","X","X","X">>,
    <<"X","X","X","X","X","X","X">>,
    <<"X","T","E","S","X","X","X">>,
    <<"X","E","S","T","S","X","X">>,
    <<"X","X","X","I","QU","X","X">>,
    <<"X","X","X","X","X","X","X">>,
    <<"X","X","X","X","X","X","X">> >>

\* every cell the same letter
BoardAllT == [i \in 1..N |-> [j \in 1..N |-> "T"]]

\* a letter list of six groups
BoardSixColumns == [i \in 1..N |-> [j \in 1..(N - 1) |-> "X"]]

\* seven groups of six tokens
BoardSixRows == [i \in 1..(N - 1) |-> [j \in 1..N |-> "X"]]

\* words along the bottom and right edges, each with a diagonal step upwards
BoardCorner == <<
    <<"X","X","X","X","X","X","X">>,
    <<"X","X","X","X","X","X","X">>,
    <<"X","X","X","X","X","X","X">>,
    <<"X","X","X","X","X","X","T">>,
    <<"X","X","X","X","X","X","S">>,
    <<"X","X","T","X","X","X","E">>,
    <<"QU","I","X","X","X","T","X">> >>

\* the letter lists: groups a space apart, and for one board other whitespace
\* between and around the groups
LetterLists == <<
    LetterList(BoardExample, <<Space>>),
    LetterList(BoardQu, <<Space>>),
    <<NewLine>> \o LetterList(BoardDense, <<\h3000, \h0009>>) \o <<\h0085, Space>>,
    LetterList(BoardAllT, <<Space>>),
    LetterList(BoardSixColumns, <<Space>>),
    LetterList(BoardSixRows, <<Space>>),
    LetterList(BoardCorner, <<Space>>) >>

Puzzles == {LetterLists[i] : i \in 1..Min(NumBoards, Len(LetterLists))}

-----------------------------------------------------------------------------
(* State *)

Top == stack[Len(stack)]
Pop(q) == SubSeq(q, 1, Len(q) - 1)
Frame(r, c, node) ==
    [r |-> r, c |-> c, node |-> node, at |-> "enter", cur |-> None, offs |-> <<>>, k |-> 0]
AllClear == [cell \in Cells |-> FALSE]

Init ==
    /\ pc = "load"
    /\ wordLines \in WordFiles
    /\ letterList \in Puzzles
    /\ li = 0
    /\ nodes = NewTrie
    /\ added = {}
    /\ nadds = 0
    /\ grid = [cell \in Cells |-> <<>>]
    /\ origin = 0
    /\ stack = <<>>
    /\ entry = <<>>
    /\ buf = <<>>
    /\ seen = {}
    /\ counts = <<>>
    /\ hits = 0
    /\ visited = AllClear
    /\ total = 0
    /\ clue = <<>>

-----------------------------------------------------------------------------
(* load_trie: one line of the word file *)

LoadLine ==
    /\ pc = "load"
    /\ li < Len(wordLines)
    /\ \E s \in {CleanLine(wordLines[li + 1])} :    \* s is computed once per line
          IF Accepted(s)
          THEN /\ nodes' = TrieAdd(nodes, s)
               /\ added' = added \cup {s}
               /\ nadds' = nadds + 1
          ELSE UNCHANGED <<nodes, added, nadds>>
    /\ li' = li + 1
    /\ UNCHANGED <<pc, wordLines, letterList, grid, origin, stack, entry, buf, seen,
                   counts, hits, visited, total, clue>>

(* parse_grid, once the word file is read: a letter list that is not 7 groups *)
(* of 7 tokens ends the run                                                   *)

ParsePuzzle ==
    /\ pc = "load"
    /\ li = Len(wordLines)
    /\ \E chunks \in {Split(letterList)} :    \* chunks and cols are computed once
          IF BadCols(chunks)
          THEN grid' = grid /\ pc' = "error"
          ELSE \E cols \in {Cols(chunks)} :
                   IF BadRows(cols)
                   THEN grid' = grid /\ pc' = "error"
                   ELSE grid' = GridOf(cols) /\ pc' = "search"
    /\ UNCHANGED <<wordLines, li, letterList, nodes, added, nadds, origin, stack, entry,
                   buf, seen, counts, hits, visited, total, clue>>

(* main: the call explore(grid, trie, rr, cc, trie.root, [], ...) of the next origin *)

MainCall ==
    /\ pc = "search"
    /\ stack = <<>>
    /\ origin < N * N
    /\ stack' = <<Frame(origin \div N, origin % N, Root)>>
    /\ buf' = <<>>
    /\ entry' = <<[visited |-> visited, buf |-> <<>>]>>
    /\ origin' = origin + 1
    /\ UNCHANGED <<pc, wordLines, li, letterList, nodes, added, nadds, grid, seen, counts,
                   hits, visited, total, clue>>

(* explore, from its entry to the neighbour loop: the tile's letters are walked *)
(* through the trie; a missing child returns at once, otherwise the cell is     *)
(* marked, its tile appended and a terminal node's word recorded                *)

ExploreEnter ==
    /\ stack # <<>>
    /\ Top.at = "enter"
    /\ LET cell == <<Top.r, Top.c>>
           tile == grid[cell]
           cur == WalkTile(nodes, Top.node, tile, 1)
           s == Join(Append(buf, tile))
       IN IF cur = None
          THEN /\ stack' = Pop(stack)
               /\ entry' = Pop(entry)
               /\ UNCHANGED <<buf, seen, counts, hits, visited>>
          ELSE /\ visited' = [visited EXCEPT ![cell] = TRUE]
               /\ buf' = Append(buf, tile)
               /\ hits' = IF IsLongWord(nodes, cur, s) THEN hits + 1 ELSE hits
               /\ IF Records(nodes, cur, s, seen)
                  THEN /\ seen' = seen \cup {s}
                       /\ counts' = Increment(counts, Prefix2(s))
                  ELSE UNCHANGED <<seen, counts>>
               /\ stack' = [stack EXCEPT ![Len(stack)] =
                               [@ EXCEPT !.at = "loop", !.cur = cur,
                                         !.offs = NeighborOffsets(Top.c), !.k = 1]]
               /\ UNCHANGED entry
    /\ UNCHANGED <<pc, wordLines, li, letterList, nodes, added, nadds, grid, origin,
                   total, clue>>

\* mutant: a cell that is already on the path may be entered again
CanEnterIgnoringVisited(v, nr, nc) == InBounds(nr, nc)

\* 0 <= nr < 7 and 0 <= nc < 7 and not visited[nr][nc]
CanEnter(v, nr, nc) == InBounds(nr, nc) /\ ~v[<<nr, nc>>]

\* mutant: the loop moves on only after a recursive call
NextOffsetAfterCallOnly(k, called) == IF called THEN k + 1 ELSE k

\* the for loop takes the next offset whether or not it recursed
NextOffset(k, called) == k + 1

(* explore: one iteration of the loop over neighbor_offsets(c) *)

ExploreLoop ==
    /\ stack # <<>>
    /\ Top.at = "loop"
    /\ Top.k <= Len(Top.offs)
    /\ LET nr == Top.r + Top.offs[Top.k][1]
           nc == Top.c + Top.offs[Top.k][2]
           called == CanEnter(visited, nr, nc)
           here == [stack EXCEPT ![Len(stack)].k = NextOffset(@, called)]
       IN IF called
          THEN /\ stack' = Append(here, Frame(nr, nc, Top.cur))
               /\ entry' = Append(entry, [visited |-> visited, buf |-> buf])
          ELSE /\ stack' = here
               /\ entry' = entry
    /\ UNCHANGED <<pc, wordLines, li, letterList, nodes, added, nadds, grid, origin, buf,
                   seen, counts, hits, visited, total, clue>>

\* mutant: the cell stays marked when explore returns
UnmarkForgotten(v, cell) == v

\* visited[r][c] = False
Unmark(v, cell) == [v EXCEPT ![cell] = FALSE]

(* explore: the loop is over; buf.pop(), unmark, return *)

ExploreReturn ==
    /\ stack # <<>>
    /\ Top.at = "loop"
    /\ Top.k > Len(Top.offs)
    /\ buf' = Pop(buf)
    /\ visited' = Unmark(visited, <<Top.r, Top.c>>)
    /\ stack' = Pop(stack)
    /\ entry' = Pop(entry)
    /\ UNCHANGED <<pc, wordLines, li, letterList, nodes, added, nadds, grid, origin,
                   seen, counts, hits, total, clue>>

(* main: after the 49 origin searches, the total and the clue line *)

Output ==
    /\ pc = "search"
    /\ stack = <<>>
    /\ origin = N * N
    /\ total' = Cardinality(seen)
    /\ clue' = BuildClue(counts)
    /\ pc' = "done"
    /\ UNCHANGED <<wordLines, li, letterList, nodes, added, nadds, grid, origin, stack,
                   entry, buf, seen, counts, hits, visited>>

Next ==
    \/ LoadLine
    \/ ParsePuzzle
    \/ MainCall
    \/ ExploreEnter
    \/ ExploreLoop
    \/ ExploreReturn
    \/ Output

Spec == Init /\ [][Next]_vars

\* the program is one sequential thread: a step that can be taken is taken
FairSpec == Spec /\ WF_vars(Next)

-----------------------------------------------------------------------------
(* The trie alone, under arbitrary sequences of add calls *)

TrieAlphabet == {Code("a"), Code("b")}

RECURSIVE StringsUpTo(_)
StringsUpTo(n) ==
    IF n = 0 THEN {<<>>}
    ELSE LET shorter == StringsUpTo(n - 1)
         IN shorter \cup {Append(s, ch) : s \in shorter, ch \in TrieAlphabet}

TrieInit ==
    /\ pc = "trie"
    /\ wordLines = <<>>
    /\ letterList = <<>>
    /\ li = 0
    /\ nodes = NewTrie
    /\ added = {}
    /\ nadds = 0
    /\ grid = [cell \in Cells |-> <<>>]
    /\ origin = 0
    /\ stack = <<>>
    /\ entry = <<>>
    /\ buf = <<>>
    /\ seen = {}
    /\ counts = <<>>
    /\ hits = 0
    /\ visited = AllClear
    /\ total = 0
    /\ clue = <<>>

AddCall(w) ==
    /\ pc = "trie"
    /\ nadds < MaxAdds
    /\ nodes' = TrieAdd(nodes, w)
    /\ added' = added \cup {w}
    /\ nadds' = nadds + 1
    /\ UNCHANGED <<pc, wordLines, li, letterList, grid, origin, stack, entry, buf, seen,
                   counts, hits, visited, total, clue>>

TrieNext == \E w \in StringsUpTo(MaxAddLen) : AddCall(w)

TrieSpec == TrieInit /\ [][TrieNext]_vars

-----------------------------------------------------------------------------
(* Vocabulary of the properties *)

\* hex adjacency as the specification states it: four orthogonal cells, and
\* the two diagonal cells above in odd columns, below in even columns
HexNeighbours(cell) ==
    LET r == cell[1]
        c == cell[2]
    IN ({<<r, c - 1>>, <<r, c + 1>>, <<r - 1, c>>, <<r + 1, c>>}
        \cup (IF c % 2 = 1 THEN {<<r - 1, c - 1>>, <<r - 1, c + 1>>}
                           ELSE {<<r + 1, c - 1>>, <<r + 1, c + 1>>}))
       \cap Cells

QuTile == Str(<<"q", "u">>)

\* what a cell may contribute to a word; with lone, a qu cell may also stand
\* for q alone or u alone
Readings(cell, lone) ==
    IF lone /\ grid[cell] = QuTile THEN {QuTile, Str(<<"q">>), Str(<<"u">>)} ELSE {grid[cell]}

\* w from position i on is spelled by a path of adjacent cells that starts at
\* cell and avoids the cells in used
RECURSIVE SpellsFrom(_, _, _, _, _)
SpellsFrom(cell, w, i, used, lone) ==
    \E t \in Readings(cell, lone) :
        LET j == i + Len(t) - 1
        IN /\ Len(t) > 0
           /\ j <= Len(w)
           /\ SubSeq(w, i, j) = t
           /\ \/ j = Len(w)
              \/ \E nb \in HexNeighbours(cell) \ (used \cup {cell}) :
                     SpellsFrom(nb, w, j + 1, used \cup {cell}, lone)

Spellable(w) == \E cell \in Cells : SpellsFrom(cell, w, 1, {}, FALSE)
LoneSpellable(w) == \E cell \in Cells : SpellsFrom(cell, w, 1, {}, TRUE)

\* all 49 origin searches have finished
SearchOver == pc = "done" \/ (pc = "search" /\ origin = N * N /\ stack = <<>>)

CellOf(f) == <<f.r, f.c>>
\* the depths of the calls that have marked their cell
OnPath == {d \in 1..Len(stack) : stack[d].at = "loop"}

IsPrefix(p, w) == Len(p) <= Len(w) /\ SubSeq(w, 1, Len(p)) = p

RECURSIVE SumCounts(_)
SumCounts(cs) == IF cs = <<>> THEN 0 ELSE Head(cs).n + SumCounts(Tail(cs))

\* the pieces of a line between its spaces
RECURSIVE SplitSpaces(_, _)
SplitSpaces(s, acc) ==
    IF s = <<>> THEN <<acc>>
    ELSE IF Head(s) = Space THEN <<acc>> \o SplitSpaces(Tail(s), <<>>)
    ELSE SplitSpaces(Tail(s), Append(acc, Head(s)))

\* following step letter by letter from the root
RECURSIVE Follow(_, _)
Follow(n, s) ==
    IF s = <<>> \/ n = None THEN n
    ELSE Follow(IF Head(s) \in DOMAIN nodes[n].children THEN nodes[n].children[Head(s)] ELSE None,
                Tail(s))

-----------------------------------------------------------------------------
(* C1: once all 49 origin searches are over, every word of the Result Set is *)
(* spelled by a path of pairwise distinct, hex-adjacent cells, was added to  *)
(* the Lexicon and has at least 4 letters.                                   *)
C1_FoundWordsAreOnBoard ==
    SearchOver =>
        \A w \in seen : Len(w) >= 4 /\ w \in added /\ Spellable(w)

C1_Witness == pc = "done" /\ Cardinality(seen) >= 2

(* C2: once all 49 origin searches are over, every dictionary word of at     *)
(* least 4 letters that some simple path of hex-adjacent cells spells is in  *)
(* the Result Set.                                                           *)
C2_SearchComplete ==
    SearchOver =>
        \A w \in added : (Len(w) >= 4 /\ Spellable(w)) => w \in seen

C2_Witness ==
    /\ pc = "done"
    /\ \E w \in added : Spellable(w) /\ Len(w) = 4
    /\ \E w \in added : ~Spellable(w)

(* C3: at every point of a run each histogram entry counts the words of the  *)
(* Result Set with that two-character prefix, every found word's prefix has  *)
(* an entry, and the values sum to the size of the Result Set; reaching a    *)
(* word again changes neither.                                               *)
C3_HistogramCountsResultSet ==
    /\ \A i, j \in 1..Len(counts) : counts[i].key = counts[j].key => i = j
    /\ \A i \in 1..Len(counts) :
           counts[i].n = Cardinality({w \in seen : Prefix2(w) = counts[i].key})
    /\ \A w \in seen : \E i \in 1..Len(counts) : counts[i].key = Prefix2(w)
    /\ SumCounts(counts) = Cardinality(seen)

\* a word was reached more often than it was recorded, and a prefix is shared
C3_Witness ==
    /\ hits > Cardinality(seen)
    /\ \E i \in 1..Len(counts) : counts[i].n >= 2

(* C4: between origin searches the visited matrix is all-false and the path  *)
(* buffer empty, and every return of explore, the early one included, leaves *)
(* both as they were when that call was entered.                             *)
C4_CallsRestoreSearchState ==
    /\ [](stack = <<>> => (visited = AllClear /\ buf = <<>>))
    /\ [][Len(stack') < Len(stack) =>
              /\ visited' = entry[Len(entry)].visited
              /\ buf' = entry[Len(entry)].buf]_vars

\* an origin search that recorded a word has returned
C4_Witness == pc = "search" /\ stack = <<>> /\ origin >= 1 /\ seen # {}

(* C5: a call that got past a qu cell has taken the transition q and then    *)
(* the transition u from the node it was given, and appended the two letters *)
(* qu; no word is found that some path spells only with a qu cell read as a  *)
(* lone q or a lone u.                                                       *)
C5_QuTakesTwoTransitions ==
    /\ \A d \in OnPath :
           grid[CellOf(stack[d])] = QuTile =>
               LET afterQ == Follow(stack[d].node, Str(<<"q">>))
               IN /\ afterQ # None
                  /\ Follow(afterQ, Str(<<"u">>)) # None
                  /\ stack[d].cur = Follow(afterQ, Str(<<"u">>))
                  /\ buf[d] = QuTile
    /\ \A w \in seen : w \in added /\ (LoneSpellable(w) => Spellable(w))

\* a word through the qu cell was found and one that needs a lone q or u was not
C5_Witness ==
    /\ pc = "done"
    /\ \E w \in seen : \E i \in 1..Len(w) : w[i] = Code("q")
    /\ \E w \in added \ seen : LoneSpellable(w) /\ ~Spellable(w)

(* C6: the cells a call may recurse into are exactly the in-bounds hex       *)
(* neighbours of its cell: six of them unless the board edge clips some,     *)
(* with the diagonal pair above in odd columns and below in even columns.    *)
C6_RecursionTargetsAreHexNeighbours ==
    /\ \A d \in OnPath :
           LET f == stack[d]
               targets == {<<f.r + f.offs[i][1], f.c + f.offs[i][2]>> : i \in 1..Len(f.offs)}
           IN /\ targets \cap Cells = HexNeighbours(CellOf(f))
              /\ Cardinality(targets) = 6
              /\ (f.r \in 1..(N - 2) /\ f.c \in 1..(N - 2)) => targets \subseteq Cells
              /\ f.c = 0 => <<f.r + 1, 1>> \in targets
              /\ f.c = 1 => <<f.r - 1, 0>> \in targets /\ <<f.r - 1, 2>> \in targets
    /\ \A d \in 2..Len(stack) : CellOf(stack[d]) \in HexNeighbours(CellOf(stack[d - 1]))

\* a corner cell with three neighbours and an inner cell with six on one path
C6_Witness ==
    /\ \E d \in OnPath : Cardinality(HexNeighbours(CellOf(stack[d]))) = 3
    /\ \E d \in OnPath : Cardinality(HexNeighbours(CellOf(stack[d]))) = 6

(* C7: the clue line is one token <count><prefix> per histogram key, in      *)
(* ascending order of prefix, separated by single spaces and followed by the *)
(* marker; for an empty histogram, and so for an empty dictionary, it is the *)
(* marker alone.                                                             *)
C7_ClueLine ==
    pc = "done" =>
        LET toks == SplitSpaces(clue, <<>>)
            n == Len(counts)
            KeyOf(tok) == SubSeq(tok, Len(tok) - 1, Len(tok))
        IN /\ Len(toks) = n + 1
           /\ toks[Len(toks)] = MARKER
           /\ \A j \in 1..n : \E i \in 1..n : toks[i] = Digits(counts[j].n) \o counts[j].key
           /\ \A i \in 1..n : \E j \in 1..n : toks[i] = Digits(counts[j].n) \o counts[j].key
           /\ \A i \in 1..n : \A k \in 1..n : i < k => StrLess(KeyOf(toks[i]), KeyOf(toks[k]))
           /\ (n = 0 => clue = MARKER)
           /\ (added = {} => seen = {} /\ clue = MARKER)

\* two keys whose order of insertion is not their sorted order
C7_Witness ==
    /\ pc = "done"
    /\ Len(counts) >= 2
    /\ StrLess(counts[2].key, counts[1].key)

(* C8: after any sequence of add calls a string leads from the root to a     *)
(* terminal node exactly if it was added, to some node exactly if it is a    *)
(* prefix of an added word, the trie has one node per such prefix, and       *)
(* adding an added word again changes nothing.                               *)
C8_TrieHoldsAddedWords ==
    /\ \A s \in StringsUpTo(MaxAddLen + 1) :
           LET n == Follow(Root, s)
           IN /\ (n # None /\ nodes[n].terminal) <=> s \in added
              /\ n # None <=> (s = <<>> \/ \E w \in added : IsPrefix(s, w))
    /\ Len(nodes) = Cardinality({<<>>} \cup UNION {{SubSeq(w, 1, k) : k \in 0..Len(w)} : w \in added})
    /\ \A w \in added : TrieAdd(nodes, w) = nodes

\* a word was added twice, and a proper prefix of an added word was not added
C8_Witness ==
    /\ nadds > Cardinality(added)
    /\ \E w \in added : Len(w) >= 2 /\ SubSeq(w, 1, 1) \notin added

(* C9: the marked cells are exactly the cells of the active path, pairwise   *)
(* distinct and consecutively hex-adjacent, the path buffer holds their tile *)
(* texts in order, and a call being entered is on an unmarked cell.          *)
C9_VisitedIsActivePath ==
    /\ \A d \in 1..(Len(stack) - 1) : d \in OnPath
    /\ {cell \in Cells : visited[cell]} = {CellOf(stack[d]) : d \in OnPath}
    /\ \A d, e \in OnPath : CellOf(stack[d]) = CellOf(stack[e]) => d = e
    /\ \A d \in OnPath : d > 1 => CellOf(stack[d]) \in HexNeighbours(CellOf(stack[d - 1]))
    /\ Len(buf) = Cardinality(OnPath)
    /\ \A d \in OnPath : buf[d] = grid[CellOf(stack[d])]
    /\ \A d \in 1..Len(stack) : stack[d].at = "enter" => ~visited[CellOf(stack[d])]

\* a call is being entered at the end of a path of three marked cells
C9_Witness == Len(stack) >= 4 /\ Top.at = "enter"

(* C10: the nesting of explore calls never exceeds 49, every origin search   *)
(* returns, and a run that starts searching reaches the output step.         *)
C10_RunTerminates ==
    /\ [](Len(stack) <= N * N)
    /\ (stack # <<>>) ~> (stack = <<>>)
    /\ (pc = "search") ~> (pc = "done")

C10_Witness == pc = "done" /\ origin = N * N /\ seen # {}

====
